---- MODULE Spec2Model ----
(***************************************************************************)
(* Model of the videoconference backend: the Socket.IO relay of            *)
(* src/src/config/socket.ts (rooms, broadcast and signaling handlers) and  *)
(* the Firestore-backed meeting controller of                              *)
(* src/src/controllers/meeting.controller.ts (create/get/join/leave/delete *)
(* with one step per awaited store call), and the HTTP gateway: the         *)
(* authenticate middleware, the validators, the user, logout, OAuth and    *)
(* meeting-proxy controllers and the error handlers.                       *)
(***************************************************************************)
EXTENDS Integers, Sequences, FiniteSets, TLC

\* ------------------------------------------------------------------ bounds
\* Client events (join, leave, relay, disconnect) the relay handles in a run.
MaxEvents == 4

\* Socket ids, in the order Socket.IO hands them out; the meeting ids (room
\* names) and the user ids that clients put in their payloads.
Conns == {1, 2, 3}
MeetingIds == {1, 2}
UserIds == {1, 2}

\* JavaScript's undefined: a field that a payload, a request or a record does
\* not carry.
Undefined == 0
NoUser == Undefined

\* The keys of the adapter's room map: a room is whatever value the handler
\* passes to socket.join, the meetingId of the payload or undefined.
RoomKeys == MeetingIds \cup {Undefined}
NoConn == Undefined
NoRoom == Undefined
NoTime == Undefined

\* What new Date() reads when a chat-message is handled: the wall clock at
\* millisecond resolution, which two messages can read alike and which can be
\* set back between two of them.
WallTimes == {1, 2}

\* HTTP requests the meeting controller receives in a run.
MaxRequests == 3

\* Callers of the meeting routes, and the slots for requests in flight.
Users == {1, 2, 3}
Reqs == {1, 2}
NoDoc == [exists |-> FALSE, hostId |-> NoUser, participants |-> <<>>]
IdleReq ==
  [op |-> "none", uid |-> NoUser, m |-> NoRoom, pc |-> "idle",
   participants |-> <<>>, status |-> 0, found |-> FALSE, seenLen |-> 0,
   seenHost |-> NoUser, wrote |-> FALSE, afterDelete |-> FALSE]

SignalKinds == {"webrtc-offer", "webrtc-answer", "webrtc-ice-candidate"}
ToggleKinds == {"toggle-microphone", "toggle-camera"}
RelayKinds == {"chat-message"} \cup SignalKinds \cup ToggleKinds

VARIABLES
  conn,      \* conn[c]: "idle" (not yet connected), "connected", "closed"
  rooms,     \* rooms[m]: the sockets in Socket.IO room m (the adapter's room map)
  inbox,     \* inbox[c]: the server->client events written to socket c, in order
  clock,     \* number of client events the server has handled
  last,      \* the client event handled last
  joinedAs,  \* joinedAs[c][m]: the userId socket c gave when it last joined m
  left,      \* the <<c, m>> for which c's leave-meeting was handled, no join since
  inUse,     \* the relay event kind the clients of this behaviour emit
  meetings,  \* meetings[m]: the document meetings/m of the store, or NoDoc
  req,       \* req[r]: the HTTP request in slot r and where its handler stands
  generated, \* the meeting ids generateMeetingId has returned
  deleted,   \* the meeting ids whose deleteMeeting answered 200
  started,   \* number of HTTP requests received
  now,       \* the identity provider's time
  creds,     \* the credentials the identity provider has issued
  validAfter,\* validAfter[u]: tokensValidAfterTime of u's identity record
  authUsers, \* authUsers[u]: u's identity record
  userDocs,  \* userDocs[u]: the document users/u of the store
  http,      \* http[r]: the gateway request in slot r and where it stands
  nodeEnv,   \* process.env.NODE_ENV
  received,  \* number of gateway requests received
  feature,   \* the routes this behaviour's clients use besides login and logout
  loggedOut  \* the credentials that were issued to u when a logout of u answered 200

relayVars == <<conn, rooms, inbox, clock, last, joinedAs, left, inUse>>
meetingVars == <<meetings, req, generated, deleted, started>>
gatewayVars ==
  <<now, creds, validAfter, authUsers, userDocs, http, nodeEnv, received,
    feature, loggedOut>>
vars == <<conn, rooms, inbox, clock, last, joinedAs, left, inUse,
          meetings, req, generated, deleted, started,
          now, creds, validAfter, authUsers, userDocs, http, nodeEnv, received,
          feature, loggedOut>>

\* ------------------------------------------------------------ gateway data
\* HTTP requests the gateway receives in a run, the ticks of the identity
\* provider's time, and the lifetime of a session cookie in ticks (expiresIn).
MaxHttp == 2
MaxTime == 4
SessionLifetime == 3

\* The lifetime of an ID token in ticks.
IdTokenLifetime == 3

\* Registered accounts (uids) and the slots for gateway requests in flight.
Accounts == {1, 2}

\* The identities OAuth sign-ins are keyed by: uid `google:${sub}` of a
\* Google account and uid `github:${id}` of a GitHub account. All uids the
\* provider and the store can hold a record for.
GoogleIdentity == 3
GithubIdentity == 4
OAuthRoutes == {"googleOAuth", "githubOAuth"}
Identities == Accounts \cup {GoogleIdentity, GithubIdentity}

\* The name a Google or GitHub profile carries, and the age (null) of the
\* document an OAuth sign-in creates.
ProfileName == "profile"
NullAge == -2
Slots == {1}

\* A credential: what the provider signed into a session cookie or an ID token.
\* NoCred: the request carries none. Garbage: a string no provider issued.
NoCred == [kind |-> "none", uid |-> NoUser, authTime |-> 0, exp |-> 0]
Garbage == [kind |-> "garbage", uid |-> NoUser, authTime |-> 0, exp |-> 0]

\* A field the JSON body does not carry; a field whose JSON value is the
\* empty array; and the values clients send as age: texts and the empty
\* array (the runs of the validated routes also send "0").
Absent == "<undefined>"
EmptyArray == "<[]>"
AgeInputs == {"120", "121", "abc", "30abc", EmptyArray}
FormAgeInputs == AgeInputs \cup {"0", Absent}

\* The body of PUT /profile: the value of each field, or Absent.
NoBody ==
  [name |-> Absent, last_name |-> Absent, age |-> Absent, email |-> Absent]

\* Values of the profile fields: as registered, and the new name and last
\* name the requests set.
Registered == "registered"
Changed == "changed"

\* What clients send as name, last_name and email of PUT /profile: values
\* the validators of the route accept (after trim, and lower-cased by
\* normalizeEmail), and values they refuse.
ProfileNameInputs == {Absent, "changed "}
ProfileLastNameInputs == {Absent, "changed"}
ProfileEmailInputs == {Absent, "Changed@x.co"}
RefusedNameInputs == {"c"}
RefusedLastNameInputs == {"  "}
RefusedEmailInputs == {"changed.x.co"}

\* `${newname} ${newlast_name}`: the display name of the identity record.
DisplayName(name, last_name) == <<name, last_name>>

\* The bodies sent to the gateway: every age, with a name, a last name and
\* an address the validators accept (the runs of the validated routes send
\* the refused ones).
ProfileBodies ==
  [name : ProfileNameInputs, last_name : ProfileLastNameInputs,
   age : AgeInputs \cup {Absent}, email : ProfileEmailInputs]

\* The JSON body of the auth routes and of POST /api/meetings: the text of
\* each field, or Absent.
NoForm ==
  [email |-> Absent, password |-> Absent, name |-> Absent,
   last_name |-> Absent, age |-> Absent, title |-> Absent]

\* What clients send as email, password, name, last_name and title. The
\* identity provider knows account 1 as ana@x.co and account 2 as luis@x.co.
EmailInputs == {"ana@x.co", "Luis@X.co", "ana.x.co", Absent}
PasswordInputs == {"secret1", "abc", Absent}
NameInputs == {"Ana", "A", "  "}
LastNameInputs == {"Paz ", Absent}
TitleInputs == {"Standup", "  ", Absent}

RegisterForms ==
  [email : EmailInputs, password : PasswordInputs, name : NameInputs,
   last_name : LastNameInputs, age : FormAgeInputs,
   title : {Absent}]
LoginForms ==
  [email : EmailInputs, password : PasswordInputs, name : {Absent},
   last_name : {Absent}, age : {Absent}, title : {Absent}]
ResetForms ==
  [email : EmailInputs, password : {Absent}, name : {Absent},
   last_name : {Absent}, age : {Absent}, title : {Absent}]
MeetingForms ==
  [email : {Absent}, password : {Absent}, name : {Absent},
   last_name : {Absent}, age : {Absent}, title : TitleInputs]

\* The login body of a client that knows the address and the password of u.
LoginFormOf(u) ==
  [NoForm EXCEPT !.email = IF u = 1 THEN "ana@x.co" ELSE "Luis@X.co",
                 !.password = "secret1"]

UserRoutes == {"getProfile", "updateProfile", "deleteAccount", "getUserById"}
ProxyRoutes ==
  {"createMeeting", "getUserMeetings", "getMeetingById", "joinMeeting",
   "leaveMeeting", "updateMeeting", "deleteMeeting"}

\* What the chat backend answers to a proxied call: an HTTP status, or
\* nothing (0: fetch rejects).
UpstreamAnswers == {0, 200, 403, 404, 500}

\* What a behaviour's clients use: login, logout and the routes behind
\* authenticate with empty bodies; the user routes; the meeting routes; or
\* the OAuth route and unknown routes.
Features == {"sessions", "users", "meetings", "other"}

\* The behaviours of the gateway whose authenticate reads a bearer ID token.
BearerFeature == "bearer"

NoMeeting == Undefined
NoResp == [status |-> 0, kind |-> "none", success |-> FALSE, stack |-> FALSE]
HttpIdle ==
  [route |-> "none", cookie |-> NoCred, bearer |-> NoCred, body |-> NoBody,
   param |-> NoUser, pc |-> "idle", user |-> NoUser, rejection |-> "none",
   err |-> 0, resp |-> NoResp, invoked |-> FALSE, upstream |-> 0,
   authTime |-> 0, failed |-> FALSE, setCookie |-> NoCred, cleared |-> FALSE,
   form |-> NoForm, meetingId |-> NoMeeting,
   displayName |-> DisplayName("", ""), signedIn |-> FALSE]

\* A session cookie whose ID token was issued at authTime and which was
\* created at time t: auth.createSessionCookie(idToken, {expiresIn}).
IssuedAt(uid, authTime, t) ==
  [kind |-> "session", uid |-> uid, authTime |-> authTime,
   exp |-> t + SessionLifetime]

\* An ID token signed in at authTime: what signInWithPassword returns.
IdTokenAt(uid, authTime) ==
  [kind |-> "idToken", uid |-> uid, authTime |-> authTime,
   exp |-> authTime + IdTokenLifetime]

\* The gateway at rest: both accounts registered, nobody signed in.
GatewayIdle ==
  /\ now = 0
  /\ creds = {}
  /\ validAfter = [u \in Identities |-> 0]
  /\ authUsers = [u \in Identities |->
       [exists |-> (u \in Accounts),
        displayName |-> DisplayName(Registered, Registered),
        email |-> Registered]]
  /\ userDocs = [u \in Identities |->
       [exists |-> (u \in Accounts), name |-> Registered, last_name |-> Registered,
        age |-> 30, email |-> Registered]]
  /\ http = [r \in Slots |-> HttpIdle]
  /\ nodeEnv = "production"
  /\ received = 0
  /\ feature = "none"
  /\ loggedOut = {}

\* ---------------------------------------------------------- Socket.IO API
\* Mutant: io.emit, which reaches every socket in any room.
IoTo_Everyone(rs, m) == UNION {rs[k] : k \in RoomKeys}

\* io.to(m): every socket in room m.
IoTo(rs, m) == rs[m]

\* Mutant: the sender is not excluded.
SocketTo_WithSender(rs, c, m) == rs[m]

\* socket.to(m): every socket in room m except the emitting socket c.
SocketTo(rs, c, m) == rs[m] \ {c}

\* socket.join(m)
SocketJoin(rs, c, m) == [rs EXCEPT ![m] = @ \cup {c}]

\* Mutant: the socket stays in the room.
SocketLeave_Stays(rs, c, m) == rs

\* socket.leave(m)
SocketLeave(rs, c, m) == [rs EXCEPT ![m] = @ \ {c}]

\* Socket.IO's cleanup on close: the socket leaves every room.
LeaveAll(rs, c) == [m \in RoomKeys |-> rs[m] \ {c}]

\* Mutant: the packet overtakes what was written before.
Emit_Overtakes(inb, recipients, ev) ==
  [r \in Conns |-> IF r \in recipients THEN <<ev>> \o inb[r] ELSE inb[r]]

\* BroadcastOperator.emit: one packet written to each recipient's connection.
Emit(inb, recipients, ev) ==
  [r \in Conns |-> IF r \in recipients THEN Append(inb[r], ev) ELSE inb[r]]

\* A server->client event. type, userId, socketId, targetUserId and timestamp
\* are the payload the handler builds (timestamp: what the wall clock read
\* when the handler ran); room and src record the client event
\* that produced it. Opaque pass-through fields (message, offer, answer, candidate,
\* isMuted, isVideoOff) are not inspected by the relay and are left out.
Event(type, m, c, uid, sid, target, ts) ==
  [type |-> type, room |-> m, src |-> c,
   userId |-> uid, socketId |-> sid, targetUserId |-> target, timestamp |-> ts]

Handled(type, c, m, uid, target) ==
  [type |-> type, conn |-> c, room |-> m, userId |-> uid, target |-> target]

NoEvent ==
  [type |-> "none", conn |-> NoConn, room |-> NoRoom, userId |-> NoUser,
   target |-> NoUser]

\* ----------------------------------------------------------------- relay
InitRelay ==
  /\ conn = [c \in Conns |-> "idle"]
  /\ rooms = [m \in RoomKeys |-> {}]
  /\ inbox = [c \in Conns |-> <<>>]
  /\ clock = 0
  /\ last = NoEvent
  /\ joinedAs = [c \in Conns |-> [m \in RoomKeys |-> NoUser]]
  /\ left = {}
  /\ inUse \in RelayKinds
  /\ meetings = [m \in MeetingIds |-> NoDoc]
  /\ req = [r \in Reqs |-> IdleReq]
  /\ generated = {}
  /\ deleted = {}
  /\ started = 0
  /\ GatewayIdle

\* io.on('connection')
Connect(c) ==
  /\ conn[c] = "idle"
  /\ \A d \in 1..(c - 1) : conn[d] # "idle"
  /\ conn' = [conn EXCEPT ![c] = "connected"]
  /\ UNCHANGED <<rooms, inbox, clock, last, joinedAs, left, inUse>>
  /\ UNCHANGED <<meetingVars, gatewayVars>>

\* Mutant: the payload carries an identity the server established for the
\* socket (its id) instead of the client's userId.
UserJoined_ServerIdentity(m, c, uid) ==
  Event("user-joined", m, c, c + Cardinality(UserIds), c, NoUser, NoTime)

\* join-meeting: the payload {userId, socketId: socket.id} of 'user-joined'.
UserJoined(m, c, uid) == Event("user-joined", m, c, uid, c, NoUser, NoTime)

\* socket.on('join-meeting')
JoinMeetingEvent(c, m, uid) ==
  /\ conn[c] = "connected"
  /\ clock < MaxEvents
  /\ clock' = clock + 1
  /\ rooms' = SocketJoin(rooms, c, m)
  /\ inbox' = Emit(inbox, SocketTo(rooms', c, m), UserJoined(m, c, uid))
  /\ joinedAs' = [joinedAs EXCEPT ![c][m] = uid]
  /\ left' = left \ {<<c, m>>}
  /\ last' = Handled("join-meeting", c, m, uid, NoUser)
  /\ UNCHANGED <<conn, inUse>>
  /\ UNCHANGED <<meetingVars, gatewayVars>>

\* Mutant: the payload lacks the socket id.
UserLeft_NoSocketId(m, c, uid) ==
  Event("user-left", m, c, uid, NoConn, NoUser, NoTime)

\* leave-meeting: the payload {userId, socketId: socket.id} of 'user-left'.
UserLeft(m, c, uid) == Event("user-left", m, c, uid, c, NoUser, NoTime)

\* socket.on('leave-meeting')
LeaveMeetingEvent(c, m, uid) ==
  /\ conn[c] = "connected"
  /\ clock < MaxEvents
  /\ clock' = clock + 1
  /\ rooms' = SocketLeave(rooms, c, m)
  /\ inbox' = Emit(inbox, SocketTo(rooms', c, m), UserLeft(m, c, uid))
  /\ joinedAs' = [joinedAs EXCEPT ![c][m] = NoUser]
  /\ left' = left \cup {<<c, m>>}
  /\ last' = Handled("leave-meeting", c, m, uid, NoUser)
  /\ UNCHANGED <<conn, inUse>>
  /\ UNCHANGED <<meetingVars, gatewayVars>>

\* socket.on('chat-message')
ChatMessage(c, m, uid, t) ==
  /\ conn[c] = "connected"
  /\ clock < MaxEvents
  /\ clock' = clock + 1
  /\ inbox' = Emit(inbox, IoTo(rooms, m),
                   Event("chat-message", m, c, uid, NoConn, NoUser, t))
  /\ last' = Handled("chat-message", c, m, uid, NoUser)
  /\ UNCHANGED <<conn, rooms, joinedAs, left, inUse>>
  /\ UNCHANGED <<meetingVars, gatewayVars>>

\* socket.on('webrtc-offer' | 'webrtc-answer' | 'webrtc-ice-candidate')
Signal(c, kind, m, target) ==
  /\ conn[c] = "connected"
  /\ clock < MaxEvents
  /\ clock' = clock + 1
  /\ inbox' = Emit(inbox, SocketTo(rooms, c, m),
                   Event(kind, m, c, NoUser, c, target, NoTime))
  /\ last' = Handled(kind, c, m, NoUser, target)
  /\ UNCHANGED <<conn, rooms, joinedAs, left, inUse>>
  /\ UNCHANGED <<meetingVars, gatewayVars>>

ToggledName(kind) ==
  IF kind = "toggle-microphone" THEN "microphone-toggled" ELSE "camera-toggled"

\* Mutant: a toggle also puts its socket in the room.
Toggle_Joins(c, kind, m, uid) ==
  /\ conn[c] = "connected"
  /\ clock < MaxEvents
  /\ clock' = clock + 1
  /\ rooms' = SocketJoin(rooms, c, m)
  /\ inbox' = Emit(inbox, SocketTo(rooms, c, m),
                   Event(ToggledName(kind), m, c, uid, NoConn, NoUser, NoTime))
  /\ last' = Handled(kind, c, m, uid, NoUser)
  /\ UNCHANGED <<conn, joinedAs, left, inUse>>
  /\ UNCHANGED <<meetingVars, gatewayVars>>

\* socket.on('toggle-microphone' | 'toggle-camera')
Toggle(c, kind, m, uid) ==
  /\ conn[c] = "connected"
  /\ clock < MaxEvents
  /\ clock' = clock + 1
  /\ inbox' = Emit(inbox, SocketTo(rooms, c, m),
                   Event(ToggledName(kind), m, c, uid, NoConn, NoUser, NoTime))
  /\ last' = Handled(kind, c, m, uid, NoUser)
  /\ UNCHANGED <<conn, rooms, joinedAs, left, inUse>>
  /\ UNCHANGED <<meetingVars, gatewayVars>>

\* socket.on('disconnect'): Socket.IO has emptied the socket's rooms before the
\* handler runs; the handler itself only logs.
Disconnect(c) ==
  /\ conn[c] = "connected"
  /\ clock < MaxEvents
  /\ clock' = clock + 1
  /\ conn' = [conn EXCEPT ![c] = "closed"]
  /\ rooms' = LeaveAll(rooms, c)
  /\ joinedAs' = [joinedAs EXCEPT ![c] = [m \in RoomKeys |-> NoUser]]
  /\ last' = Handled("disconnect", c, NoRoom, NoUser, NoUser)
  /\ UNCHANGED <<inbox, left, inUse>>
  /\ UNCHANGED <<meetingVars, gatewayVars>>

\* The userId the client behind socket c puts in its payloads: sockets 1 and 3
\* belong to user 1 (two tabs), socket 2 to user 2.
ClientUid(c) == ((c - 1) % Cardinality(UserIds)) + 1

\* Each behaviour's clients use join, leave and disconnect and one kind of
\* relay event (inUse), chosen at the start.
NextRelay ==
  \/ \E c \in Conns : Connect(c)
  \/ \E c \in Conns, m \in MeetingIds : JoinMeetingEvent(c, m, ClientUid(c))
  \/ \E c \in Conns, m \in MeetingIds : LeaveMeetingEvent(c, m, ClientUid(c))
  \/ \E c \in Conns, m \in MeetingIds, t \in WallTimes :
       inUse = "chat-message" /\ ChatMessage(c, m, ClientUid(c), t)
  \/ \E c \in Conns, k \in SignalKinds, m \in MeetingIds, t \in UserIds :
       inUse = k /\ Signal(c, k, m, t)
  \/ \E c \in Conns, k \in ToggleKinds, m \in MeetingIds :
       inUse = k /\ Toggle(c, k, m, ClientUid(c))
  \/ \E c \in Conns : Disconnect(c)

Spec == InitRelay /\ [][NextRelay]_vars

\* The meetingId of the payloads of clients that also send payloads without
\* one: meeting 1 or undefined.
LooseIds == {1, Undefined}

\* The relay with clients whose payloads may lack the meetingId: the handlers
\* destructure data and pass data.meetingId on as it is.
NextLoose ==
  \/ \E c \in Conns : Connect(c)
  \/ \E c \in Conns, m \in LooseIds : JoinMeetingEvent(c, m, ClientUid(c))
  \/ \E c \in Conns, m \in LooseIds : LeaveMeetingEvent(c, m, ClientUid(c))
  \/ \E c \in Conns, m \in LooseIds, t \in WallTimes :
       inUse = "chat-message" /\ ChatMessage(c, m, ClientUid(c), t)
  \/ \E c \in Conns, k \in SignalKinds, m \in LooseIds, t \in UserIds :
       inUse = k /\ Signal(c, k, m, t)
  \/ \E c \in Conns, k \in ToggleKinds, m \in LooseIds :
       inUse = k /\ Toggle(c, k, m, ClientUid(c))
  \/ \E c \in Conns : Disconnect(c)

SpecLoose == InitRelay /\ [][NextLoose]_vars


\* --------------------------------------------------------- meeting routes
\* The meetings collection is read and written one awaited call at a time; a
\* handler's step runs from one awaited call's answer to the next call. The
\* store is taken to answer every call (no outage): the only store error that
\* arises is update() on a document that no longer exists.

\* Maximum number of participants of a meeting.
MaxParticipants == 10

\* participants.includes(userId)
Includes(parts, uid) == \E i \in 1..Len(parts) : parts[i] = uid

\* Mutant: the membership test always fails.
IsMember_Never(parts, uid) == FALSE

\* joinMeeting: participants.includes(userId)
IsMember(parts, uid) == Includes(parts, uid)

\* Mutant: the capacity test is off by one.
IsFull_OffByOne(parts) == Len(parts) > MaxParticipants

\* joinMeeting: participants.length >= 10
IsFull(parts) == Len(parts) >= MaxParticipants

\* Mutant: every caller passes the host check.
IsHost_Anyone(doc, uid) == TRUE

\* deleteMeeting: meetingData.hostId === userId
IsHost(doc, uid) == doc.hostId = uid

\* participants.filter(id => id !== userId)
RECURSIVE Without(_, _)
Without(parts, uid) ==
  IF parts = <<>> THEN <<>>
  ELSE IF Head(parts) = uid THEN Without(Tail(parts), uid)
       ELSE <<Head(parts)>> \o Without(Tail(parts), uid)

\* Mutant: update() appends the new list to the stored one (a merge) instead of
\* replacing it.
UpdateParticipants_Merge(docs, m, parts) ==
  IF docs[m].exists
    THEN [docs EXCEPT ![m].participants =
            @ \o SelectSeq(parts, LAMBDA u : ~Includes(docs[m].participants, u))]
    ELSE docs

\* doc(meetingId).update({participants, updatedAt}) on an existing document
UpdateParticipants(docs, m, parts) ==
  IF docs[m].exists THEN [docs EXCEPT ![m].participants = parts] ELSE docs

\* The first k of the users 11, 12, ... who joined meeting 1 before the run
\* starts and make no request during it, in the order they joined.
RECURSIVE FillerList(_)
FillerList(k) ==
  IF k = 0 THEN <<>> ELSE Append(FillerList(k - 1), MaxParticipants + k)

\* Meeting 1 exists, created by user 1 and since joined by k fillers
\* (k = 0, 8 or 9: one, nine or ten participants, each state one that
\* createMeeting and joinMeeting lead to); no request is in flight.
InitMeeting ==
  /\ conn = [c \in Conns |-> "idle"]
  /\ rooms = [m \in RoomKeys |-> {}]
  /\ inbox = [c \in Conns |-> <<>>]
  /\ clock = 0
  /\ last = NoEvent
  /\ joinedAs = [c \in Conns |-> [m \in RoomKeys |-> NoUser]]
  /\ left = {}
  /\ inUse = "chat-message"
  /\ \E k \in {0, MaxParticipants - 2, MaxParticipants - 1} :
       meetings = [m \in MeetingIds |->
                     IF m = 1
                       THEN [exists |-> TRUE, hostId |-> 1,
                             participants |-> <<1>> \o FillerList(k)]
                       ELSE NoDoc]
  /\ req = [r \in Reqs |-> IdleReq]
  /\ generated = {1}
  /\ deleted = {}
  /\ started = 0
  /\ GatewayIdle

\* A request arrives in a free slot. uid is req.user.uid as authenticate set
\* it (NoUser: absent); the handlers that need it answer 401 without it.
Receive(r, op, uid, m) ==
  /\ req[r].pc = "idle"
  /\ started < MaxRequests
  /\ started' = started + 1
  /\ req' = [req EXCEPT ![r] =
       IF uid = NoUser /\ op # "get"
         THEN [IdleReq EXCEPT !.op = op, !.m = m, !.pc = "done", !.status = 401]
         ELSE [IdleReq EXCEPT !.op = op, !.uid = uid, !.m = m, !.pc = "read",
                              !.afterDelete = (m \in deleted)]]
  /\ UNCHANGED <<meetings, generated, deleted>>
  /\ UNCHANGED <<relayVars, gatewayVars>>

\* createMeeting, up to the awaited set(): generateMeetingId returns an id it
\* has not returned before.
CreateMeeting(r, uid, m) ==
  /\ req[r].pc = "idle"
  /\ started < MaxRequests
  /\ started' = started + 1
  /\ IF uid = NoUser
       THEN /\ req' = [req EXCEPT ![r] =
                 [IdleReq EXCEPT !.op = "create", !.pc = "done", !.status = 401]]
            /\ UNCHANGED generated
       ELSE /\ m \notin generated
            /\ generated' = generated \cup {m}
            /\ req' = [req EXCEPT ![r] =
                 [IdleReq EXCEPT !.op = "create", !.uid = uid, !.m = m,
                                 !.pc = "set", !.participants = <<uid>>]]
  /\ UNCHANGED <<meetings, deleted>>
  /\ UNCHANGED <<relayVars, gatewayVars>>

\* createMeeting: set() is applied and 201 is answered.
CreateSet(r) ==
  /\ req[r].pc = "set"
  /\ meetings' = [meetings EXCEPT ![req[r].m] =
       [exists |-> TRUE, hostId |-> req[r].uid,
        participants |-> req[r].participants]]
  /\ req' = [req EXCEPT ![r].pc = "done", ![r].status = 201, ![r].wrote = TRUE]
  /\ UNCHANGED <<generated, deleted, started>>
  /\ UNCHANGED <<relayVars, gatewayVars>>

\* getMeetingById: the awaited get() answers.
GetMeetingById(r) ==
  /\ req[r].op = "get" /\ req[r].pc = "read"
  /\ req' = [req EXCEPT ![r].pc = "done",
                        ![r].status = IF meetings[req[r].m].exists THEN 200 ELSE 404,
                        ![r].participants = meetings[req[r].m].participants]
  /\ UNCHANGED <<meetings, generated, deleted, started>>
  /\ UNCHANGED <<relayVars, gatewayVars>>

\* joinMeeting: the first get() answers; the handler runs to the 404, the 403,
\* the awaited update() or, for a caller already listed, the second get().
JoinRead(r) ==
  /\ req[r].op = "join" /\ req[r].pc = "read"
  /\ LET doc == meetings[req[r].m]
         uid == req[r].uid
         seen == [req[r] EXCEPT !.found = Includes(doc.participants, uid),
                                !.seenLen = Len(doc.participants),
                                !.seenHost = doc.hostId]
     IN req' = [req EXCEPT ![r] =
          IF ~doc.exists
            THEN [req[r] EXCEPT !.pc = "done", !.status = 404]
          ELSE IF IsMember(doc.participants, uid)
            THEN [seen EXCEPT !.pc = "reread", !.participants = doc.participants]
          ELSE IF IsFull(doc.participants)
            THEN [seen EXCEPT !.pc = "done", !.status = 403,
                              !.participants = doc.participants]
          ELSE [seen EXCEPT !.pc = "update",
                            !.participants = Append(doc.participants, uid)]]
  /\ UNCHANGED <<meetings, generated, deleted, started>>
  /\ UNCHANGED <<relayVars, gatewayVars>>

\* joinMeeting: update({participants}) is applied, or fails on a document that
\* is gone (an error without statusCode: 500).
JoinUpdate(r) ==
  /\ req[r].op = "join" /\ req[r].pc = "update"
  /\ meetings' = UpdateParticipants(meetings, req[r].m, req[r].participants)
  /\ req' = [req EXCEPT ![r] =
       IF meetings[req[r].m].exists
         THEN [req[r] EXCEPT !.pc = "reread", !.wrote = TRUE]
         ELSE [req[r] EXCEPT !.pc = "done", !.status = 500]]
  /\ UNCHANGED <<generated, deleted, started>>
  /\ UNCHANGED <<relayVars, gatewayVars>>

\* joinMeeting: the second get() answers and 200 is sent with what it read.
JoinReread(r) ==
  /\ req[r].op = "join" /\ req[r].pc = "reread"
  /\ req' = [req EXCEPT ![r].pc = "done", ![r].status = 200,
                        ![r].participants = meetings[req[r].m].participants]
  /\ UNCHANGED <<meetings, generated, deleted, started>>
  /\ UNCHANGED <<relayVars, gatewayVars>>

\* leaveMeeting: get() answers; 404, or the filtered list goes to update().
LeaveRead(r) ==
  /\ req[r].op = "leave" /\ req[r].pc = "read"
  /\ LET doc == meetings[req[r].m]
         uid == req[r].uid
     IN req' = [req EXCEPT ![r] =
          IF ~doc.exists
            THEN [req[r] EXCEPT !.pc = "done", !.status = 404]
            ELSE [req[r] EXCEPT !.pc = "update",
                                !.found = Includes(doc.participants, uid),
                                !.seenLen = Len(doc.participants),
                                !.seenHost = doc.hostId,
                                !.participants = Without(doc.participants, uid)]]
  /\ UNCHANGED <<meetings, generated, deleted, started>>
  /\ UNCHANGED <<relayVars, gatewayVars>>

\* leaveMeeting: update() is applied and 200 is answered, or update() fails on
\* a document that is gone (500).
LeaveUpdate(r) ==
  /\ req[r].op = "leave" /\ req[r].pc = "update"
  /\ meetings' = UpdateParticipants(meetings, req[r].m, req[r].participants)
  /\ req' = [req EXCEPT ![r] =
       IF meetings[req[r].m].exists
         THEN [req[r] EXCEPT !.pc = "done", !.status = 200, !.wrote = TRUE]
         ELSE [req[r] EXCEPT !.pc = "done", !.status = 500]]
  /\ UNCHANGED <<generated, deleted, started>>
  /\ UNCHANGED <<relayVars, gatewayVars>>

\* deleteMeeting: get() answers; 404, 403 for a caller who is not the host, or
\* on to the awaited delete().
DeleteRead(r) ==
  /\ req[r].op = "delete" /\ req[r].pc = "read"
  /\ LET doc == meetings[req[r].m]
         uid == req[r].uid
         seen == [req[r] EXCEPT !.found = Includes(doc.participants, uid),
                                !.seenLen = Len(doc.participants),
                                !.seenHost = doc.hostId]
     IN req' = [req EXCEPT ![r] =
          IF ~doc.exists
            THEN [req[r] EXCEPT !.pc = "done", !.status = 404]
          ELSE IF ~IsHost(doc, uid)
            THEN [seen EXCEPT !.pc = "done", !.status = 403]
          ELSE [seen EXCEPT !.pc = "delete"]]
  /\ UNCHANGED <<meetings, generated, deleted, started>>
  /\ UNCHANGED <<relayVars, gatewayVars>>

\* deleteMeeting: delete() is applied (deleting a missing document succeeds)
\* and 200 is answered.
DeleteApply(r) ==
  /\ req[r].op = "delete" /\ req[r].pc = "delete"
  /\ meetings' = [meetings EXCEPT ![req[r].m] = NoDoc]
  /\ deleted' = deleted \cup {req[r].m}
  /\ req' = [req EXCEPT ![r].pc = "done", ![r].status = 200, ![r].wrote = TRUE]
  /\ UNCHANGED <<generated, started>>
  /\ UNCHANGED <<relayVars, gatewayVars>>

\* The response has gone out; the slot is free for the next request.
Close(r) ==
  /\ req[r].pc = "done"
  /\ req' = [req EXCEPT ![r] = IdleReq]
  /\ UNCHANGED <<meetings, generated, deleted, started>>
  /\ UNCHANGED <<relayVars, gatewayVars>>

NextMeeting ==
  \/ \E r \in Reqs, uid \in Users \cup {NoUser}, m \in MeetingIds :
       CreateMeeting(r, uid, m)
  \/ \E r \in Reqs, op \in {"get", "join", "leave", "delete"},
        uid \in Users \cup {NoUser}, m \in MeetingIds : Receive(r, op, uid, m)
  \/ \E r \in Reqs : CreateSet(r)
  \/ \E r \in Reqs : GetMeetingById(r)
  \/ \E r \in Reqs : JoinRead(r)
  \/ \E r \in Reqs : JoinUpdate(r)
  \/ \E r \in Reqs : JoinReread(r)
  \/ \E r \in Reqs : LeaveRead(r)
  \/ \E r \in Reqs : LeaveUpdate(r)
  \/ \E r \in Reqs : DeleteRead(r)
  \/ \E r \in Reqs : DeleteApply(r)
  \/ \E r \in Reqs : Close(r)

SpecMeeting == InitMeeting /\ [][NextMeeting]_vars

\* ------------------------------------------------------- identity provider
\* The provider's checks on a credential at the present time.
Expired(c) == now >= c.exp
Revoked(c) == c.authTime < validAfter[c.uid]

\* authenticate: the second argument of auth.verifySessionCookie(cookie, true)
CheckRevoked == TRUE

\* auth.verifySessionCookie(cookie, checkRevoked): "ok" or the error's code.
\* The signature and the expiry are checked first; with checkRevoked the
\* identity record is fetched and the cookie's auth time compared with its
\* tokensValidAfterTime.
VerifySessionCookie(c, checkRevoked) ==
  IF c.kind # "session" THEN "auth/argument-error"
  ELSE IF Expired(c) THEN "auth/session-cookie-expired"
  ELSE IF checkRevoked /\ ~authUsers[c.uid].exists THEN "auth/user-not-found"
  ELSE IF checkRevoked /\ Revoked(c) THEN "auth/session-cookie-revoked"
  ELSE "ok"

\* auth.verifyIdToken(idToken): no checkRevoked argument, so only the
\* signature and the expiry are checked.
VerifyIdToken(c) ==
  IF c.kind # "idToken" THEN "auth/argument-error"
  ELSE IF Expired(c) THEN "auth/id-token-expired"
  ELSE "ok"

\* auth.revokeRefreshTokens(uid): tokensValidAfterTime becomes the present.
RevokeRefreshTokens(va, uid) == [va EXCEPT ![uid] = now]

\* -------------------------------------------------------------- the routes
\* Mutant: only the user routes are behind authenticate.
Gated_UsersOnly(route) == route \in UserRoutes

\* The routes mounted behind authenticate: router.use(authenticate) of the
\* user routes, authenticate on each meeting route and on POST /logout.
Gated(route) ==
  route \in UserRoutes \cup ProxyRoutes \cup {"logout", "newMeeting"}

\* The routes whose chain holds validators and validateRequest.
Validated(route) ==
  route \in {"register", "login", "resetPassword", "updateProfile",
             "newMeeting"}

\* Where a request of the route starts in the middleware chain.
FirstStage(route) ==
  IF Gated(route) THEN "authenticate"
  ELSE IF route = "unknown" THEN "notFound"
  ELSE IF Validated(route) THEN "validate"
  ELSE "controller"

\* The middleware that follows authenticate on the route.
AfterAuthenticate(route) ==
  IF Validated(route) THEN "validate" ELSE "controller"

\* authenticate's catch: the rejection that goes to next().
Rejection(code) ==
  IF code = "missing" THEN "No hay sesion activa"
  ELSE IF code = "auth/session-cookie-expired" THEN "Sesion expirada"
  ELSE IF code = "auth/session-cookie-revoked" THEN "Sesion revocada"
  ELSE "Sesion invalida o expirada"

\* res.status(status).json({success: true, ...})
Success(status) ==
  [status |-> status, kind |-> "json", success |-> TRUE, stack |-> FALSE]

\* next(createError(message, statusCode)) from a handler of the request.
Fail(q, statusCode) == [q EXCEPT !.pc = "error", !.err = statusCode]

\* The gateway after both accounts were registered and have logged in:
\* account 1 at time 0, account 2 at time 1 and account 1 again, from a second
\* device, in the present second (the states login leads to, which does not
\* wait for the clock); no request is in flight.
\* NODE_ENV is whatever the deployment sets.
InitGateway ==
  /\ conn = [c \in Conns |-> "idle"]
  /\ rooms = [m \in RoomKeys |-> {}]
  /\ inbox = [c \in Conns |-> <<>>]
  /\ clock = 0
  /\ last = NoEvent
  /\ joinedAs = [c \in Conns |-> [m \in RoomKeys |-> NoUser]]
  /\ left = {}
  /\ inUse = "chat-message"
  /\ meetings = [m \in MeetingIds |-> NoDoc]
  /\ req = [r \in Reqs |-> IdleReq]
  /\ generated = {}
  /\ deleted = {}
  /\ started = 0
  /\ now = 3
  /\ creds = {IssuedAt(1, 0, 1), IssuedAt(2, 1, 2), IssuedAt(1, 3, 3)}
  /\ validAfter = [u \in Identities |-> 0]
  /\ authUsers = [u \in Identities |->
       [exists |-> (u \in Accounts),
        displayName |-> DisplayName(Registered, Registered),
        email |-> Registered]]
  /\ userDocs = [u \in Identities |->
       [exists |-> (u \in Accounts), name |-> Registered, last_name |-> Registered,
        age |-> 30, email |-> Registered]]
  /\ http = [r \in Slots |-> HttpIdle]
  /\ nodeEnv \in {"production", "development"}
  /\ received = 0
  /\ feature \in Features
  /\ loggedOut = {}

\* A request arrives in a free slot and enters the chain of its route.
HttpReceive(r, route, cookie, body, param) ==
  /\ http[r].pc = "idle"
  /\ received < MaxHttp
  /\ received' = received + 1
  /\ http' = [http EXCEPT ![r] =
       [HttpIdle EXCEPT !.route = route, !.cookie = cookie, !.body = body,
                        !.param = param, !.pc = FirstStage(route)]]
  /\ UNCHANGED <<now, creds, validAfter, authUsers, userDocs, nodeEnv,
               feature, loggedOut>>
  /\ UNCHANGED <<relayVars, meetingVars>>

\* A request with a JSON body arrives for an auth route or POST /api/meetings.
HttpReceiveForm(r, route, cookie, form) ==
  /\ http[r].pc = "idle"
  /\ received < MaxHttp
  /\ received' = received + 1
  /\ http' = [http EXCEPT ![r] =
       [HttpIdle EXCEPT !.route = route, !.cookie = cookie, !.form = form,
                        !.pc = FirstStage(route)]]
  /\ UNCHANGED <<now, creds, validAfter, authUsers, userDocs, nodeEnv,
               feature, loggedOut>>
  /\ UNCHANGED <<relayVars, meetingVars>>

\* authenticate (session cookie): the awaited verifySessionCookie answers;
\* req.user is set and next() called, or the rejection goes to next(err).
Authenticate(r) ==
  /\ http[r].pc = "authenticate"
  /\ LET c == http[r].cookie
         code == IF c = NoCred THEN "missing"
                 ELSE VerifySessionCookie(c, CheckRevoked)
     IN http' = [http EXCEPT ![r] =
          IF code = "ok"
            THEN [@ EXCEPT !.user = c.uid,
                            !.pc = AfterAuthenticate(http[r].route)]
            ELSE [Fail(@, 401) EXCEPT !.rejection = Rejection(code)]]
  /\ UNCHANGED <<now, creds, validAfter, authUsers, userDocs, nodeEnv, received,
               feature, loggedOut>>
  /\ UNCHANGED <<relayVars, meetingVars>>

\* The provider's time passes (in the behaviours about sessions).
Tick ==
  /\ feature \in {"sessions", BearerFeature}
  /\ now < MaxTime
  /\ now' = now + 1
  /\ UNCHANGED <<creds, validAfter, authUsers, userDocs, http, nodeEnv, received,
               feature, loggedOut>>
  /\ UNCHANGED <<relayVars, meetingVars>>

\* -------------------------------------------------------- user controllers
\* parseInt(age): the leading digits of String(age), or NaN (-1 here);
\* String([]) is the empty text.
ParseInt(a) ==
  CASE a = "0" -> 0
    [] a = "120" -> 120
    [] a = "121" -> 121
    [] a = "30abc" -> 30
    [] OTHER -> -1

\* What a standard validator of express-validator checks for a field: each
\* item of an array, or the value itself
\* (Array.isArray(value) ? value : [value]).
Items(v) == IF v = EmptyArray THEN <<>> ELSE <<v>>

\* validator.js isInt(text, {min, max}): the whole text is an integer in
\* range.
IsIntText(a, min, max) ==
  /\ a \in {"0", "120", "121"}
  /\ ParseInt(a) >= min
  /\ ParseInt(a) <= max

\* express-validator's isInt({min, max}): an error is added for each checked
\* item that is no integer in range, so an empty array adds none.
IsInt(v, min, max) ==
  \A i \in 1..Len(Items(v)) : IsIntText(Items(v)[i], min, max)

\* if (name), if (last_name), if (email): the field is present and not the
\* empty text.
Truthy(v) == v # Absent /\ v # ""

\* updateProfile: isNaN(ageNum) || ageNum < 1 || ageNum > 120
BadAge(a) == ParseInt(a) = -1 \/ ParseInt(a) < 1 \/ ParseInt(a) > 120

\* express-validator's toString: the text a validator is given for a field.
ToText(v) == IF v = Absent THEN "" ELSE v

\* The character of s at position i.
CharAt(s, i) == SubSeq(s, i, i)

\* trim(): the text without its leading and trailing blanks.
RECURSIVE Trim(_)
Trim(s) ==
  IF s = "" THEN s
  ELSE IF CharAt(s, 1) = " " THEN Trim(SubSeq(s, 2, Len(s)))
  ELSE IF CharAt(s, Len(s)) = " " THEN Trim(SubSeq(s, 1, Len(s) - 1))
  ELSE s

\* notEmpty() and isLength({min, max}).
NotEmpty(s) == s # ""
IsLength(s, min, max) == Len(s) >= min /\ Len(s) <= max

\* The positions of the character ch in s, and the largest of a set of them.
Positions(s, ch) == {i \in 1..Len(s) : CharAt(s, i) = ch}
Largest(ps) == CHOOSE i \in ps : \A j \in ps : j <= i

\* isFQDN: labels separated by dots, none empty, no blank, and a last label
\* of two characters or more.
IsFQDN(d) ==
  LET dots == Positions(d, ".")
  IN /\ dots # {}
     /\ Positions(d, " ") = {}
     /\ 1 \notin dots
     /\ \A i \in dots : i + 1 \notin dots
     /\ Len(d) - Largest(dots) >= 2

\* isEmail(): the text splits at its last @ into a local part (not empty, no
\* blank, no @, no empty dot-separated piece) and a domain that is an FQDN.
IsEmail(s) ==
  LET ats == Positions(s, "@")
  IN /\ ats # {}
     /\ LET k == Largest(ats)
            user == SubSeq(s, 1, k - 1)
            domain == SubSeq(s, k + 1, Len(s))
            dots == Positions(user, ".")
        IN /\ user # ""
           /\ Positions(user, " ") = {}
           /\ Positions(user, "@") = {}
           /\ 1 \notin dots /\ Len(user) \notin dots
           /\ \A i \in dots : i + 1 \notin dots
           /\ IsFQDN(domain)

\* toLowerCase() of one character and of a text.
UpperCase == "ABCDEFGHIJKLMNOPQRSTUVWXYZ"
LowerCase == "abcdefghijklmnopqrstuvwxyz"
ToLowerChar(ch) ==
  IF Positions(UpperCase, ch) = {} THEN ch
  ELSE CharAt(LowerCase, Largest(Positions(UpperCase, ch)))
RECURSIVE ToLowerCase(_)
ToLowerCase(s) ==
  IF s = "" THEN s
  ELSE ToLowerChar(CharAt(s, 1)) \o ToLowerCase(SubSeq(s, 2, Len(s)))

\* normalizeEmail(): the text is split at its last @ (all of it is the
\* domain when it has none), both parts are lower-cased and joined with @.
NormalizeEmail(s) ==
  LET ats == Positions(s, "@")
      k == IF ats = {} THEN 0 ELSE Largest(ats)
  IN ToLowerCase(SubSeq(s, 1, k - 1)) \o "@"
       \o ToLowerCase(SubSeq(s, k + 1, Len(s)))

\* The validators of the route applied to the body: TRUE when
\* validationResult(req) holds an error.
\*   register: email isEmail; password isLength({min: 6}); name and
\*     last_name trim, notEmpty, isLength({min: 2, max: 50}); age isInt 1..120
\*   login: email isEmail; password notEmpty
\*   reset-password: email isEmail
\*   PUT /profile, each field optional: name and last_name trim, notEmpty,
\*     isLength({min: 2, max: 50}); age isInt 1..120; email isEmail
\*   POST /api/meetings: title optional, trim, notEmpty
HasErrors(q) ==
  LET f == q.form
      badName(v) == ~NotEmpty(Trim(ToText(v)))
                      \/ ~IsLength(Trim(ToText(v)), 2, 50)
  IN CASE q.route = "register" ->
            \/ ~IsEmail(ToText(f.email))
            \/ Len(ToText(f.password)) < 6
            \/ badName(f.name)
            \/ badName(f.last_name)
            \/ ~IsInt(f.age, 1, 120)
       [] q.route = "login" ->
            ~IsEmail(ToText(f.email)) \/ ~NotEmpty(ToText(f.password))
       [] q.route = "resetPassword" -> ~IsEmail(ToText(f.email))
       [] q.route = "updateProfile" ->
            \/ q.body.name # Absent /\ badName(q.body.name)
            \/ q.body.last_name # Absent /\ badName(q.body.last_name)
            \/ q.body.age # Absent /\ ~IsInt(q.body.age, 1, 120)
            \/ q.body.email # Absent /\ ~IsEmail(q.body.email)
       [] q.route = "newMeeting" ->
            f.title # Absent /\ ~NotEmpty(Trim(f.title))
       [] OTHER -> FALSE

\* The sanitizers of the route, which write their result back to req.body.
Sanitized(q) ==
  LET f == q.form
  IN CASE q.route = "register" ->
            [f EXCEPT !.email = NormalizeEmail(ToText(f.email)),
                      !.name = Trim(ToText(f.name)),
                      !.last_name = Trim(ToText(f.last_name))]
       [] q.route \in {"login", "resetPassword"} ->
            [f EXCEPT !.email = NormalizeEmail(ToText(f.email))]
       [] q.route = "newMeeting" /\ f.title # Absent ->
            [f EXCEPT !.title = Trim(f.title)]
       [] OTHER -> f

\* The sanitizers of PUT /profile, which skip a field the body does not
\* carry: trim of name and last_name, normalizeEmail of email.
SanitizedBody(q) ==
  LET b == q.body
  IN IF q.route = "updateProfile"
       THEN [b EXCEPT
               !.name = IF @ = Absent THEN @ ELSE Trim(@),
               !.last_name = IF @ = Absent THEN @ ELSE Trim(@),
               !.email = IF @ = Absent THEN @ ELSE NormalizeEmail(@)]
       ELSE b

\* Mutant: validateRequest calls next() whatever validationResult holds.
ValidateRequest_PassesOn(r) ==
  /\ http[r].pc = "validate"
  /\ http' = [http EXCEPT ![r] =
       [@ EXCEPT !.pc = "controller", !.form = Sanitized(http[r]),
                 !.body = SanitizedBody(http[r])]]
  /\ UNCHANGED <<now, creds, validAfter, authUsers, userDocs, nodeEnv, received,
               feature, loggedOut>>
  /\ UNCHANGED <<relayVars, meetingVars>>

\* The validators and sanitizers of the route have run; validateRequest
\* passes a 400 to next() when validationResult holds an error, and calls
\* next() otherwise.
ValidateRequest(r) ==
  /\ http[r].pc = "validate"
  /\ http' = [http EXCEPT ![r] =
       IF HasErrors(http[r])
         THEN [Fail(@, 400) EXCEPT !.form = Sanitized(http[r]),
                                   !.body = SanitizedBody(http[r])]
         ELSE [@ EXCEPT !.pc = "controller", !.form = Sanitized(http[r]),
                        !.body = SanitizedBody(http[r])]]
  /\ UNCHANGED <<now, creds, validAfter, authUsers, userDocs, nodeEnv, received,
               feature, loggedOut>>
  /\ UNCHANGED <<relayVars, meetingVars>>

\* getProfile and getUserById: the awaited get() answers.
GetProfile(r) ==
  /\ http[r].route \in {"getProfile", "getUserById"}
  /\ http[r].pc = "controller"
  /\ LET q == [http[r] EXCEPT !.invoked = TRUE]
         id == IF q.route = "getProfile" THEN q.user ELSE q.param
     IN http' = [http EXCEPT ![r] =
          IF q.route = "getProfile" /\ q.user = NoUser THEN Fail(q, 401)
          ELSE IF ~userDocs[id].exists THEN Fail(q, 404)
          ELSE [q EXCEPT !.pc = "done", !.resp = Success(200)]]
  /\ UNCHANGED <<now, creds, validAfter, authUsers, userDocs, nodeEnv, received,
               feature, loggedOut>>
  /\ UNCHANGED <<relayVars, meetingVars>>

\* updateProfile, from the age check on: 400 for a bad age, else on to the
\* awaited updateUser({email}) or the awaited update().
AfterDisplayName(q) ==
  IF q.body.age # Absent /\ BadAge(q.body.age) THEN Fail(q, 400)
  ELSE IF Truthy(q.body.email) THEN [q EXCEPT !.pc = "up.email"]
  ELSE [q EXCEPT !.pc = "up.update"]

\* updateProfile starts: with a name or last_name it awaits the get() of the
\* document, else it goes on to the age check.
UpdateProfile(r) ==
  /\ http[r].route = "updateProfile" /\ http[r].pc = "controller"
  /\ LET q == [http[r] EXCEPT !.invoked = TRUE]
     IN http' = [http EXCEPT ![r] =
          IF q.user = NoUser THEN Fail(q, 401)
          ELSE IF Truthy(q.body.name) \/ Truthy(q.body.last_name)
            THEN [q EXCEPT !.pc = "up.displayName"]
          ELSE AfterDisplayName(q)]
  /\ UNCHANGED <<now, creds, validAfter, authUsers, userDocs, nodeEnv, received,
               feature, loggedOut>>
  /\ UNCHANGED <<relayVars, meetingVars>>

\* updateProfile: the get() of the document answers; the handler composes
\* the display name from the body and the document as read (name ||
\* userData?.name || '') and awaits auth.updateUser({displayName}).
UpdateReadDoc(r) ==
  /\ http[r].route = "updateProfile" /\ http[r].pc = "up.displayName"
  /\ LET b == http[r].body
         d == userDocs[http[r].user]
         newname == IF Truthy(b.name) THEN b.name
                    ELSE IF d.exists THEN d.name ELSE ""
         newlast_name == IF Truthy(b.last_name) THEN b.last_name
                         ELSE IF d.exists THEN d.last_name ELSE ""
     IN http' = [http EXCEPT ![r].displayName =
                                DisplayName(newname, newlast_name),
                             ![r].pc = "up.updateUser"]
  /\ UNCHANGED <<now, creds, validAfter, authUsers, userDocs, nodeEnv, received,
               feature, loggedOut>>
  /\ UNCHANGED <<relayVars, meetingVars>>

\* updateProfile: auth.updateUser({displayName}) is applied (it fails on a
\* missing identity record: 500); then the age check.
UpdateDisplayName(r) ==
  /\ http[r].route = "updateProfile" /\ http[r].pc = "up.updateUser"
  /\ LET u == http[r].user
     IN IF authUsers[u].exists
          THEN /\ authUsers' = [authUsers EXCEPT
                                  ![u].displayName = http[r].displayName]
               /\ http' = [http EXCEPT ![r] = AfterDisplayName(@)]
          ELSE /\ http' = [http EXCEPT ![r] = Fail(@, 500)]
               /\ UNCHANGED authUsers
  /\ UNCHANGED <<now, creds, validAfter, userDocs, nodeEnv, received,
               feature, loggedOut>>
  /\ UNCHANGED <<relayVars, meetingVars>>

\* updateProfile: auth.updateUser({email}) is applied, or fails: the address
\* belongs to another account (409) or the identity record is gone (500).
\* A change of address is an account change on which the provider moves the
\* account's tokensValidAfterTime to the present.
UpdateEmail(r) ==
  /\ http[r].route = "updateProfile" /\ http[r].pc = "up.email"
  /\ LET u == http[r].user
     IN IF ~authUsers[u].exists
          THEN /\ http' = [http EXCEPT ![r] = Fail(@, 500)]
               /\ UNCHANGED <<authUsers, validAfter>>
        ELSE IF \E o \in Accounts \ {u} :
                  /\ authUsers[o].exists
                  /\ authUsers[o].email = http[r].body.email
          THEN /\ http' = [http EXCEPT ![r] = Fail(@, 409)]
               /\ UNCHANGED <<authUsers, validAfter>>
        ELSE /\ authUsers' = [authUsers EXCEPT
                                ![u].email = http[r].body.email]
             /\ validAfter' = [validAfter EXCEPT ![u] = now]
             /\ http' = [http EXCEPT ![r].pc = "up.update"]
  /\ UNCHANGED <<now, creds, userDocs, nodeEnv, received,
               feature, loggedOut>>
  /\ UNCHANGED <<relayVars, meetingVars>>

\* updateProfile: update(updateData) is applied, or fails on a document that
\* is gone (500).
UpdateDoc(r) ==
  /\ http[r].route = "updateProfile" /\ http[r].pc = "up.update"
  /\ LET u == http[r].user
         b == http[r].body
         d == userDocs[u]
     IN IF d.exists
          THEN /\ userDocs' = [userDocs EXCEPT ![u] =
                    [exists |-> TRUE,
                     name |-> IF Truthy(b.name) THEN b.name ELSE d.name,
                     last_name |-> IF Truthy(b.last_name) THEN b.last_name
                                   ELSE d.last_name,
                     age |-> IF b.age # Absent THEN ParseInt(b.age) ELSE d.age,
                     email |-> IF Truthy(b.email) THEN b.email ELSE d.email]]
               /\ http' = [http EXCEPT ![r].pc = "up.reread"]
          ELSE /\ http' = [http EXCEPT ![r] = Fail(@, 500)]
               /\ UNCHANGED userDocs
  /\ UNCHANGED <<now, creds, validAfter, authUsers, nodeEnv, received,
               feature, loggedOut>>
  /\ UNCHANGED <<relayVars, meetingVars>>

\* updateProfile: the second get() answers and 200 is sent.
UpdateReread(r) ==
  /\ http[r].route = "updateProfile" /\ http[r].pc = "up.reread"
  /\ http' = [http EXCEPT ![r].pc = "done", ![r].resp = Success(200)]
  /\ UNCHANGED <<now, creds, validAfter, authUsers, userDocs, nodeEnv, received,
               feature, loggedOut>>
  /\ UNCHANGED <<relayVars, meetingVars>>

\* deleteAccount starts and awaits the delete() of the document.
DeleteAccount(r) ==
  /\ http[r].route = "deleteAccount" /\ http[r].pc = "controller"
  /\ LET q == [http[r] EXCEPT !.invoked = TRUE]
     IN http' = [http EXCEPT ![r] =
          IF q.user = NoUser THEN Fail(q, 401) ELSE [q EXCEPT !.pc = "del.doc"]]
  /\ UNCHANGED <<now, creds, validAfter, authUsers, userDocs, nodeEnv, received,
               feature, loggedOut>>
  /\ UNCHANGED <<relayVars, meetingVars>>

\* Mutant: the document is kept until the identity record is gone.
DeleteDoc_Kept(docs, u) == docs

\* deleteAccount: db.collection('users').doc(userId).delete()
DeleteDoc(docs, u) == [docs EXCEPT ![u].exists = FALSE]

\* deleteAccount: delete() is applied (or the store fails: 500); the handler
\* awaits auth.deleteUser.
DeleteAccountDoc(r, storeFails) ==
  /\ http[r].route = "deleteAccount" /\ http[r].pc = "del.doc"
  /\ IF storeFails
       THEN /\ http' = [http EXCEPT ![r] = Fail(@, 500)]
            /\ UNCHANGED userDocs
       ELSE /\ userDocs' = DeleteDoc(userDocs, http[r].user)
            /\ http' = [http EXCEPT ![r].pc = "del.auth"]
  /\ UNCHANGED <<now, creds, validAfter, authUsers, nodeEnv, received,
               feature, loggedOut>>
  /\ UNCHANGED <<relayVars, meetingVars>>

\* deleteAccount: auth.deleteUser is applied and 200 is sent, or it fails (the
\* provider fails, or the record is already gone): 500.
DeleteAccountAuth(r, providerFails) ==
  /\ http[r].route = "deleteAccount" /\ http[r].pc = "del.auth"
  /\ LET u == http[r].user
     IN IF providerFails \/ ~authUsers[u].exists
          THEN /\ http' = [http EXCEPT ![r] = Fail(@, 500)]
               /\ UNCHANGED authUsers
          ELSE /\ authUsers' = [authUsers EXCEPT ![u].exists = FALSE]
               /\ http' = [http EXCEPT ![r].pc = "done",
                                       ![r].resp = Success(200)]
  /\ UNCHANGED <<now, creds, validAfter, userDocs, nodeEnv, received,
               feature, loggedOut>>
  /\ UNCHANGED <<relayVars, meetingVars>>

\* ------------------------------------------------------ session controllers
\* The account the identity provider keeps under an address (addresses are
\* compared without regard to case), or none.
AccountOf(email) ==
  IF ToLowerCase(email) = "ana@x.co" THEN 1
  ELSE IF ToLowerCase(email) = "luis@x.co" THEN 2
  ELSE NoUser

\* login starts: 400 when !email || !password, 500 without
\* FIREBASE_API_KEY, else it awaits the provider's signInWithPassword.
Login(r, hasKey) ==
  /\ http[r].route = "login" /\ http[r].pc = "controller"
  /\ LET q == [http[r] EXCEPT !.invoked = TRUE]
     IN http' = [http EXCEPT ![r] =
          IF ToText(q.form.email) = "" \/ ToText(q.form.password) = ""
            THEN Fail(q, 400)
          ELSE IF ~hasKey THEN Fail(q, 500)
          ELSE [q EXCEPT !.pc = "login.signin"]]
  /\ UNCHANGED <<now, creds, validAfter, authUsers, userDocs, nodeEnv, received,
                 feature, loggedOut>>
  /\ UNCHANGED <<relayVars, meetingVars>>

\* Mutant: the cookie is set before the provider's answer is looked at.
LoginSignIn_SetsCookie(r, passwordOk) ==
  /\ http[r].route = "login" /\ http[r].pc = "login.signin"
  /\ IF /\ passwordOk
        /\ AccountOf(http[r].form.email) # NoUser
        /\ authUsers[AccountOf(http[r].form.email)].exists
       THEN /\ http' = [http EXCEPT ![r].authTime = now,
                                    ![r].signedIn = TRUE,
                                    ![r].param = AccountOf(http[r].form.email),
                                    ![r].pc = "login.doc"]
       ELSE /\ http' = [http EXCEPT ![r] =
                 [Fail(@, 401) EXCEPT
                    !.setCookie =
                      IssuedAt(AccountOf(http[r].form.email), now, now)]]
  /\ UNCHANGED <<now, creds, validAfter, authUsers, userDocs, nodeEnv, received,
                 feature, loggedOut>>
  /\ UNCHANGED <<relayVars, meetingVars>>

\* login: the provider answers. A wrong password or an unknown account is
\* answered 401; else the ID token carries the present as its auth time, and
\* the handler awaits the get() of the user's document.
LoginSignIn(r, passwordOk) ==
  /\ http[r].route = "login" /\ http[r].pc = "login.signin"
  /\ IF /\ passwordOk
        /\ AccountOf(http[r].form.email) # NoUser
        /\ authUsers[AccountOf(http[r].form.email)].exists
       THEN /\ http' = [http EXCEPT ![r].authTime = now,
                                    ![r].signedIn = TRUE,
                                    ![r].param = AccountOf(http[r].form.email),
                                    ![r].pc = "login.doc"]
       ELSE /\ http' = [http EXCEPT ![r] = Fail(@, 401)]
  /\ UNCHANGED <<now, creds, validAfter, authUsers, userDocs, nodeEnv, received,
                 feature, loggedOut>>
  /\ UNCHANGED <<relayVars, meetingVars>>

\* auth.createSessionCookie(idToken, {expiresIn})
SessionCookie(uid, authTime) == IssuedAt(uid, authTime, now)

\* login: the get() of the user's document answers and the handler awaits
\* createSessionCookie, or the store fails and the catch answers 500.
LoginDoc(r, storeFails) ==
  /\ http[r].route = "login" /\ http[r].pc = "login.doc"
  /\ http' = [http EXCEPT ![r] =
       IF storeFails THEN Fail(@, 500) ELSE [@ EXCEPT !.pc = "login.cookie"]]
  /\ UNCHANGED <<now, creds, validAfter, authUsers, userDocs, nodeEnv, received,
                 feature, loggedOut>>
  /\ UNCHANGED <<relayVars, meetingVars>>

\* login: createSessionCookie answers; the cookie is set with res.cookie and
\* 200 is sent, or the provider fails and the catch answers 500.
LoginCookie(r, providerFails) ==
  /\ http[r].route = "login" /\ http[r].pc = "login.cookie"
  /\ IF providerFails
       THEN /\ http' = [http EXCEPT ![r] = Fail(@, 500)]
            /\ UNCHANGED creds
       ELSE LET c == SessionCookie(http[r].param, http[r].authTime)
            IN /\ creds' = creds \cup {c}
               /\ http' = [http EXCEPT ![r].pc = "done",
                                       ![r].resp = Success(200),
                                       ![r].setCookie = c]
  /\ UNCHANGED <<now, validAfter, authUsers, userDocs, nodeEnv, received,
                 feature, loggedOut>>
  /\ UNCHANGED <<relayVars, meetingVars>>

\* logout starts: 400 without a cookie, else it awaits verifySessionCookie.
Logout(r) ==
  /\ http[r].route = "logout" /\ http[r].pc = "controller"
  /\ LET q == [http[r] EXCEPT !.invoked = TRUE]
     IN http' = [http EXCEPT ![r] =
          IF q.cookie = NoCred THEN Fail(q, 400)
          ELSE [q EXCEPT !.pc = "logout.verify"]]
  /\ UNCHANGED <<now, creds, validAfter, authUsers, userDocs, nodeEnv, received,
                 feature, loggedOut>>
  /\ UNCHANGED <<relayVars, meetingVars>>

\* logout's catch: res.clearCookie('session', ...), then next(500).
ClearAndFail(q) == [Fail(q, 500) EXCEPT !.cleared = TRUE]

\* logout: verifySessionCookie(sessionCookie) answers (no revocation check);
\* on an error the cookie is cleared and 500 is answered.
LogoutVerify(r) ==
  /\ http[r].route = "logout" /\ http[r].pc = "logout.verify"
  /\ http' = [http EXCEPT ![r] =
       IF VerifySessionCookie(@.cookie, FALSE) = "ok"
         THEN [@ EXCEPT !.pc = "logout.revoke"]
         ELSE ClearAndFail(@)]
  /\ UNCHANGED <<now, creds, validAfter, authUsers, userDocs, nodeEnv, received,
                 feature, loggedOut>>
  /\ UNCHANGED <<relayVars, meetingVars>>

\* logout: revokeRefreshTokens(uid) is applied, the cookie cleared and 200
\* sent; or the provider fails (or has no such record): 500.
LogoutRevoke(r, providerFails) ==
  /\ http[r].route = "logout" /\ http[r].pc = "logout.revoke"
  /\ LET u == http[r].cookie.uid
     IN IF providerFails \/ ~authUsers[u].exists
          THEN /\ http' = [http EXCEPT ![r] = ClearAndFail(@)]
               /\ UNCHANGED <<validAfter, loggedOut>>
          ELSE /\ validAfter' = RevokeRefreshTokens(validAfter, u)
               /\ loggedOut' = loggedOut \cup {c \in creds : c.uid = u}
               /\ http' = [http EXCEPT ![r].pc = "done",
                                       ![r].resp = Success(200),
                                       ![r].cleared = TRUE]
  /\ UNCHANGED <<now, creds, authUsers, userDocs, nodeEnv, received, feature>>
  /\ UNCHANGED <<relayVars, meetingVars>>

\* res.redirect(url)
Redirect == [status |-> 302, kind |-> "redirect", success |-> FALSE,
             stack |-> FALSE]

\* The catch of googleOAuth and githubOAuth: a redirect to the frontend with
\* oauth_error=1.
OAuthCatch(q) == [q EXCEPT !.pc = "done", !.resp = Redirect, !.failed = TRUE]

\* googleOAuth and githubOAuth start: 500 when the client id, the secret or
\* the callback URL is not configured; without a code a redirect to the
\* consent page; with a code the handler awaits the token exchange.
OAuthStart(r, configured) ==
  /\ http[r].route \in OAuthRoutes /\ http[r].pc = "controller"
  /\ LET q == [http[r] EXCEPT !.invoked = TRUE]
     IN http' = [http EXCEPT ![r] =
          IF ~configured THEN Fail(q, 500)
          ELSE IF q.param = NoUser
            THEN [q EXCEPT !.pc = "done", !.resp = Redirect]
          ELSE [q EXCEPT !.pc = "oauth.token"]]
  /\ UNCHANGED <<now, creds, validAfter, authUsers, userDocs, nodeEnv, received,
                 feature, loggedOut>>
  /\ UNCHANGED <<relayVars, meetingVars>>

\* googleOAuth: oauth2Client.getToken(code) answers: it throws (catch), the
\* tokens hold no id_token (500), or the handler awaits verifyIdToken.
GoogleGetToken(r, answer) ==
  /\ http[r].route = "googleOAuth" /\ http[r].pc = "oauth.token"
  /\ http' = [http EXCEPT ![r] =
       CASE answer = "throws" -> OAuthCatch(@)
         [] answer = "no-id-token" -> Fail(@, 500)
         [] answer = "ok" -> [@ EXCEPT !.pc = "oauth.profile"]]
  /\ UNCHANGED <<now, creds, validAfter, authUsers, userDocs, nodeEnv, received,
                 feature, loggedOut>>
  /\ UNCHANGED <<relayVars, meetingVars>>

\* googleOAuth: verifyIdToken answers: it throws (catch), the payload lacks
\* sub or email (500), or the handler awaits auth.getUser(uid).
GoogleVerifyIdToken(r, answer) ==
  /\ http[r].route = "googleOAuth" /\ http[r].pc = "oauth.profile"
  /\ http' = [http EXCEPT ![r] =
       CASE answer = "throws" -> OAuthCatch(@)
         [] answer = "no-payload" -> Fail(@, 500)
         [] answer = "ok" -> [@ EXCEPT !.pc = "oauth.getUser"]]
  /\ UNCHANGED <<now, creds, validAfter, authUsers, userDocs, nodeEnv, received,
                 feature, loggedOut>>
  /\ UNCHANGED <<relayVars, meetingVars>>

\* githubOAuth: the access-token request answers and its JSON is read: it
\* throws (catch), there is no access_token (500), or the handler awaits the
\* profile.
GithubAccessToken(r, answer) ==
  /\ http[r].route = "githubOAuth" /\ http[r].pc = "oauth.token"
  /\ http' = [http EXCEPT ![r] =
       CASE answer = "throws" -> OAuthCatch(@)
         [] answer = "no-token" -> Fail(@, 500)
         [] answer = "ok" -> [@ EXCEPT !.pc = "oauth.profile"]]
  /\ UNCHANGED <<now, creds, validAfter, authUsers, userDocs, nodeEnv, received,
                 feature, loggedOut>>
  /\ UNCHANGED <<relayVars, meetingVars>>

\* githubOAuth: the profile request answers and its JSON is read: it throws
\* (catch), the profile has no id (500), it has no email (the handler awaits
\* the list of addresses), or the handler awaits auth.getUser(uid).
GithubProfile(r, answer) ==
  /\ http[r].route = "githubOAuth" /\ http[r].pc = "oauth.profile"
  /\ http' = [http EXCEPT ![r] =
       CASE answer = "throws" -> OAuthCatch(@)
         [] answer = "no-id" -> Fail(@, 500)
         [] answer = "no-email" -> [@ EXCEPT !.pc = "oauth.emails"]
         [] answer = "ok" -> [@ EXCEPT !.pc = "oauth.getUser"]]
  /\ UNCHANGED <<now, creds, validAfter, authUsers, userDocs, nodeEnv, received,
                 feature, loggedOut>>
  /\ UNCHANGED <<relayVars, meetingVars>>

\* githubOAuth: the list of addresses answers and its JSON is read: it throws
\* (catch), it holds no address (400), or the handler awaits
\* auth.getUser(uid).
GithubEmails(r, answer) ==
  /\ http[r].route = "githubOAuth" /\ http[r].pc = "oauth.emails"
  /\ http' = [http EXCEPT ![r] =
       CASE answer = "throws" -> OAuthCatch(@)
         [] answer = "none" -> Fail(@, 400)
         [] answer = "ok" -> [@ EXCEPT !.pc = "oauth.getUser"]]
  /\ UNCHANGED <<now, creds, validAfter, authUsers, userDocs, nodeEnv, received,
                 feature, loggedOut>>
  /\ UNCHANGED <<relayVars, meetingVars>>

\* auth.getUser(uid) answers: the identity record exists (the handler awaits
\* createCustomToken), it does not (the handler awaits createUser), or the
\* provider fails otherwise (500).
OAuthGetUser(r, providerFails) ==
  /\ http[r].route \in OAuthRoutes /\ http[r].pc = "oauth.getUser"
  /\ http' = [http EXCEPT ![r] =
       IF providerFails THEN Fail(@, 500)
       ELSE IF authUsers[http[r].param].exists
         THEN [@ EXCEPT !.pc = "oauth.customToken"]
       ELSE [@ EXCEPT !.pc = "oauth.createUser"]]
  /\ UNCHANGED <<now, creds, validAfter, authUsers, userDocs, nodeEnv, received,
                 feature, loggedOut>>
  /\ UNCHANGED <<relayVars, meetingVars>>

\* auth.createUser({uid, email, displayName, ...}) answers: the identity
\* record is created and the handler awaits the set() of the document, or it
\* fails and the handler awaits getUserByEmail.
OAuthCreateUser(r, providerFails) ==
  /\ http[r].route \in OAuthRoutes /\ http[r].pc = "oauth.createUser"
  /\ IF providerFails \/ authUsers[http[r].param].exists
       THEN /\ http' = [http EXCEPT ![r].pc = "oauth.getByEmail"]
            /\ UNCHANGED authUsers
       ELSE /\ authUsers' = [authUsers EXCEPT ![http[r].param] =
                 [exists |-> TRUE, displayName |-> ProfileName,
                  email |-> Registered]]
            /\ http' = [http EXCEPT ![r].pc = "oauth.setDoc"]
  /\ UNCHANGED <<now, creds, validAfter, userDocs, nodeEnv, received,
                 feature, loggedOut>>
  /\ UNCHANGED <<relayVars, meetingVars>>

\* The set() of the document users/uid answers: the document is written and
\* the handler awaits createCustomToken, or the store fails and the handler
\* awaits getUserByEmail.
OAuthSetDoc(r, storeFails) ==
  /\ http[r].route \in OAuthRoutes /\ http[r].pc = "oauth.setDoc"
  /\ IF storeFails
       THEN /\ http' = [http EXCEPT ![r].pc = "oauth.getByEmail"]
            /\ UNCHANGED userDocs
       ELSE /\ userDocs' = [userDocs EXCEPT ![http[r].param] =
                 [exists |-> TRUE, name |-> ProfileName, last_name |-> "",
                  age |-> NullAge, email |-> Registered]]
            /\ http' = [http EXCEPT ![r].pc = "oauth.customToken"]
  /\ UNCHANGED <<now, creds, validAfter, authUsers, nodeEnv, received,
                 feature, loggedOut>>
  /\ UNCHANGED <<relayVars, meetingVars>>

\* auth.getUserByEmail(email) answers: a record is found and the handler
\* awaits createCustomToken, or none is (500).
OAuthGetByEmail(r, found) ==
  /\ http[r].route \in OAuthRoutes /\ http[r].pc = "oauth.getByEmail"
  /\ http' = [http EXCEPT ![r] =
       IF found THEN [@ EXCEPT !.pc = "oauth.customToken"] ELSE Fail(@, 500)]
  /\ UNCHANGED <<now, creds, validAfter, authUsers, userDocs, nodeEnv, received,
                 feature, loggedOut>>
  /\ UNCHANGED <<relayVars, meetingVars>>

\* auth.createCustomToken(uid) answers: it throws (catch); FIREBASE_API_KEY
\* is missing (500); or the handler awaits the exchange of the custom token.
OAuthCustomToken(r, answer) ==
  /\ http[r].route \in OAuthRoutes /\ http[r].pc = "oauth.customToken"
  /\ http' = [http EXCEPT ![r] =
       CASE answer = "throws" -> OAuthCatch(@)
         [] answer = "no-key" -> Fail(@, 500)
         [] answer = "ok" -> [@ EXCEPT !.pc = "oauth.exchange"]]
  /\ UNCHANGED <<now, creds, validAfter, authUsers, userDocs, nodeEnv, received,
                 feature, loggedOut>>
  /\ UNCHANGED <<relayVars, meetingVars>>

\* signInWithCustomToken answers and its JSON is read: the fetch throws
\* (catch), the provider refuses (500), or the ID token carries the present
\* as its auth time and the handler awaits createSessionCookie. An accepted
\* sign-in of a uid without identity record creates the record, with neither
\* address nor display name.
OAuthExchange(r, answer) ==
  /\ http[r].route \in OAuthRoutes /\ http[r].pc = "oauth.exchange"
  /\ http' = [http EXCEPT ![r] =
       CASE answer = "throws" -> OAuthCatch(@)
         [] answer = "refused" -> Fail(@, 500)
         [] answer = "ok" -> [@ EXCEPT !.authTime = now, !.signedIn = TRUE,
                                      !.pc = "oauth.cookie"]]
  /\ authUsers' =
       IF answer = "ok" /\ ~authUsers[http[r].param].exists
         THEN [authUsers EXCEPT ![http[r].param] =
                 [exists |-> TRUE, displayName |-> Absent, email |-> Absent]]
         ELSE authUsers
  /\ UNCHANGED <<now, creds, validAfter, userDocs, nodeEnv, received,
                 feature, loggedOut>>
  /\ UNCHANGED <<relayVars, meetingVars>>

\* createSessionCookie answers: the cookie is set and the response redirects
\* to the frontend with oauth_success=true, or the provider fails (catch).
OAuthCookie(r, providerFails) ==
  /\ http[r].route \in OAuthRoutes /\ http[r].pc = "oauth.cookie"
  /\ IF providerFails
       THEN /\ http' = [http EXCEPT ![r] = OAuthCatch(@)]
            /\ UNCHANGED creds
       ELSE LET c == SessionCookie(http[r].param, http[r].authTime)
            IN /\ creds' = creds \cup {c}
               /\ http' = [http EXCEPT ![r].pc = "done",
                                       ![r].resp = Redirect,
                                       ![r].setCookie = c]
  /\ UNCHANGED <<now, validAfter, authUsers, userDocs, nodeEnv, received,
                 feature, loggedOut>>
  /\ UNCHANGED <<relayVars, meetingVars>>

\* ------------------------------------------------------ password handlers
\* updatePassword and confirmPasswordReset are exported by the controller and
\* mounted by no router of the sources: a request reaches the handler with
\* req.user as the middleware before it left it (an account, or undefined).
HandlerEnters(r, route, user) ==
  /\ http[r].pc = "idle"
  /\ received < MaxHttp
  /\ received' = received + 1
  /\ http' = [http EXCEPT ![r] =
       [HttpIdle EXCEPT !.route = route, !.user = user, !.pc = "controller"]]
  /\ UNCHANGED <<now, creds, validAfter, authUsers, userDocs, nodeEnv,
               feature, loggedOut>>
  /\ UNCHANGED <<relayVars, meetingVars>>

\* confirmPasswordReset starts: 500 without FIREBASE_API_KEY, else it awaits
\* the provider's resetPassword.
ConfirmPasswordReset(r, hasKey) ==
  /\ http[r].route = "confirmPasswordReset" /\ http[r].pc = "controller"
  /\ LET q == [http[r] EXCEPT !.invoked = TRUE]
     IN http' = [http EXCEPT ![r] =
          IF hasKey THEN [q EXCEPT !.pc = "confirm.reset"] ELSE Fail(q, 500)]
  /\ UNCHANGED <<now, creds, validAfter, authUsers, userDocs, nodeEnv, received,
                 feature, loggedOut>>
  /\ UNCHANGED <<relayVars, meetingVars>>

\* confirmPasswordReset: the provider answers and its JSON is read: the fetch
\* throws (500), the code or the password is refused (400), the answer names
\* no address (200), or the handler awaits the query of the users collection.
\* An accepted code belongs to an account u with an identity record, whose
\* password the provider has then reset. The handler writes nothing at the
\* provider itself; whether the provider moves the account's
\* tokensValidAfterTime to the present with the reset is the provider's
\* choice (moves).
ConfirmReset(r, answer, u, moves) ==
  /\ http[r].route = "confirmPasswordReset" /\ http[r].pc = "confirm.reset"
  /\ answer \in {"no-email", "ok"} => authUsers[u].exists
  /\ http' = [http EXCEPT ![r] =
       CASE answer = "throws" -> Fail(@, 500)
         [] answer = "refused" -> Fail(@, 400)
         [] answer = "no-email" -> [@ EXCEPT !.pc = "done",
                                             !.resp = Success(200)]
         [] answer = "ok" -> [@ EXCEPT !.pc = "confirm.query"]]
  /\ validAfter' =
       IF moves /\ answer \in {"no-email", "ok"}
         THEN [validAfter EXCEPT ![u] = now] ELSE validAfter
  /\ UNCHANGED <<now, creds, authUsers, userDocs, nodeEnv, received,
                 feature, loggedOut>>
  /\ UNCHANGED <<relayVars, meetingVars>>

\* confirmPasswordReset: the query answers: with a document the handler
\* awaits the update of its updatedAt; with none, or with an error (caught
\* and logged), 200 is sent.
ConfirmQuery(r, answer) ==
  /\ http[r].route = "confirmPasswordReset" /\ http[r].pc = "confirm.query"
  /\ http' = [http EXCEPT ![r] =
       IF answer = "found" THEN [@ EXCEPT !.pc = "confirm.touch"]
       ELSE [@ EXCEPT !.pc = "done", !.resp = Success(200)]]
  /\ UNCHANGED <<now, creds, validAfter, authUsers, userDocs, nodeEnv, received,
                 feature, loggedOut>>
  /\ UNCHANGED <<relayVars, meetingVars>>

\* confirmPasswordReset: the update of updatedAt answers (an error is caught
\* and logged) and 200 is sent.
ConfirmTouch(r) ==
  /\ http[r].route = "confirmPasswordReset" /\ http[r].pc = "confirm.touch"
  /\ http' = [http EXCEPT ![r].pc = "done", ![r].resp = Success(200)]
  /\ UNCHANGED <<now, creds, validAfter, authUsers, userDocs, nodeEnv, received,
                 feature, loggedOut>>
  /\ UNCHANGED <<relayVars, meetingVars>>

\* updatePassword starts: 401 without req.user, 500 without
\* FIREBASE_API_KEY, else it awaits the get() of the user's document.
UpdatePassword(r, hasKey) ==
  /\ http[r].route = "updatePassword" /\ http[r].pc = "controller"
  /\ LET q == [http[r] EXCEPT !.invoked = TRUE]
     IN http' = [http EXCEPT ![r] =
          IF q.user = NoUser THEN Fail(q, 401)
          ELSE IF ~hasKey THEN Fail(q, 500)
          ELSE [q EXCEPT !.pc = "pw.doc"]]
  /\ UNCHANGED <<now, creds, validAfter, authUsers, userDocs, nodeEnv, received,
                 feature, loggedOut>>
  /\ UNCHANGED <<relayVars, meetingVars>>

\* updatePassword: get() answers: the store fails (500), the document is
\* missing (404), or the handler awaits signInWithPassword with the
\* document's address and the current password.
UpdatePasswordDoc(r, storeFails) ==
  /\ http[r].route = "updatePassword" /\ http[r].pc = "pw.doc"
  /\ http' = [http EXCEPT ![r] =
       IF storeFails THEN Fail(@, 500)
       ELSE IF ~userDocs[http[r].user].exists THEN Fail(@, 404)
       ELSE [@ EXCEPT !.pc = "pw.verify"]]
  /\ UNCHANGED <<now, creds, validAfter, authUsers, userDocs, nodeEnv, received,
                 feature, loggedOut>>
  /\ UNCHANGED <<relayVars, meetingVars>>

\* updatePassword: signInWithPassword answers and its JSON is read: the
\* fetch throws (500), the current password is refused (400), or the handler
\* awaits auth.updateUser({password}).
UpdatePasswordVerify(r, answer) ==
  /\ http[r].route = "updatePassword" /\ http[r].pc = "pw.verify"
  /\ http' = [http EXCEPT ![r] =
       CASE answer = "throws" -> Fail(@, 500)
         [] answer = "refused" -> Fail(@, 400)
         [] answer = "ok" -> [@ EXCEPT !.pc = "pw.update"]]
  /\ UNCHANGED <<now, creds, validAfter, authUsers, userDocs, nodeEnv, received,
                 feature, loggedOut>>
  /\ UNCHANGED <<relayVars, meetingVars>>

\* updatePassword: auth.updateUser({password}) answers: the identity record
\* is missing (404), the password is weak (400), the provider fails
\* otherwise (500), or the handler awaits the update of updatedAt. The
\* handler asks for the password only; whether the provider moves the
\* account's tokensValidAfterTime to the present with an accepted change is
\* the provider's choice (moves).
UpdatePasswordAuth(r, answer, moves) ==
  /\ http[r].route = "updatePassword" /\ http[r].pc = "pw.update"
  /\ http' = [http EXCEPT ![r] =
       IF ~authUsers[http[r].user].exists THEN Fail(@, 404)
       ELSE CASE answer = "weak-password" -> Fail(@, 400)
              [] answer = "fails" -> Fail(@, 500)
              [] answer = "ok" -> [@ EXCEPT !.pc = "pw.touch"]]
  /\ validAfter' =
       IF moves /\ authUsers[http[r].user].exists /\ answer = "ok"
         THEN [validAfter EXCEPT ![http[r].user] = now] ELSE validAfter
  /\ UNCHANGED <<now, creds, authUsers, userDocs, nodeEnv, received,
                 feature, loggedOut>>
  /\ UNCHANGED <<relayVars, meetingVars>>

\* updatePassword: the update of updatedAt answers: 200, or 500 when the
\* store fails or the document is gone.
UpdatePasswordTouch(r, storeFails) ==
  /\ http[r].route = "updatePassword" /\ http[r].pc = "pw.touch"
  /\ http' = [http EXCEPT ![r] =
       IF storeFails \/ ~userDocs[http[r].user].exists THEN Fail(@, 500)
       ELSE [@ EXCEPT !.pc = "done", !.resp = Success(200)]]
  /\ UNCHANGED <<now, creds, validAfter, authUsers, userDocs, nodeEnv, received,
                 feature, loggedOut>>
  /\ UNCHANGED <<relayVars, meetingVars>>

\* ------------------------------------------------------------ meeting proxy
\* A proxy controller starts: 401 without req.user (getMeetingById does not
\* look at it), else it awaits the fetch to the chat backend.
ProxyCall(r) ==
  /\ http[r].route \in ProxyRoutes /\ http[r].pc = "controller"
  /\ LET q == [http[r] EXCEPT !.invoked = TRUE]
     IN http' = [http EXCEPT ![r] =
          IF q.route # "getMeetingById" /\ q.user = NoUser THEN Fail(q, 401)
          ELSE [q EXCEPT !.pc = "proxy.fetch"]]
  /\ UNCHANGED <<now, creds, validAfter, authUsers, userDocs, nodeEnv, received,
                 feature, loggedOut>>
  /\ UNCHANGED <<relayVars, meetingVars>>

\* proxyToChatBackend throws new Error(message), which has no statusCode; the
\* controller's catch turns it into createError(message, 500).
ProxyErrorStatus(answer) == 500

\* The chat backend answers (or the fetch rejects): its JSON is relayed with
\* 201 (create) or 200, or the error goes to next().
ProxyAnswer(r, answer) ==
  /\ http[r].route \in ProxyRoutes /\ http[r].pc = "proxy.fetch"
  /\ http' = [http EXCEPT ![r] =
       IF answer = 200
         THEN [@ EXCEPT !.upstream = answer, !.pc = "done",
                        !.resp = Success(IF http[r].route = "createMeeting"
                                           THEN 201 ELSE 200)]
         ELSE [Fail(@, ProxyErrorStatus(answer)) EXCEPT !.upstream = answer]]
  /\ UNCHANGED <<now, creds, validAfter, authUsers, userDocs, nodeEnv, received,
                 feature, loggedOut>>
  /\ UNCHANGED <<relayVars, meetingVars>>

\* ------------------------------------------- register and reset-password
\* register starts: 400 when parseInt(age) is NaN or outside 1..120, else it
\* awaits auth.createUser.
Register(r) ==
  /\ http[r].route = "register" /\ http[r].pc = "controller"
  /\ LET q == [http[r] EXCEPT !.invoked = TRUE]
     IN http' = [http EXCEPT ![r] =
          IF BadAge(q.form.age) THEN Fail(q, 400)
          ELSE [q EXCEPT !.pc = "reg.create"]]
  /\ UNCHANGED <<now, creds, validAfter, authUsers, userDocs, nodeEnv, received,
               feature, loggedOut>>
  /\ UNCHANGED <<relayVars, meetingVars>>

\* register: auth.createUser answers. The identity record is created, or the
\* address is taken (409), or the provider refuses the address or the
\* password (auth/invalid-email, auth/weak-password: 400), or it fails
\* otherwise (500).
RegisterCreate(r, answer) ==
  /\ http[r].route = "register" /\ http[r].pc = "reg.create"
  /\ LET u == AccountOf(http[r].form.email)
     IN IF answer \in {"invalid-email", "weak-password"}
          THEN /\ http' = [http EXCEPT ![r] = Fail(@, 400)]
               /\ UNCHANGED authUsers
          ELSE IF answer = "fails" \/ u = NoUser
          THEN /\ http' = [http EXCEPT ![r] = Fail(@, 500)]
               /\ UNCHANGED authUsers
          ELSE IF authUsers[u].exists
            THEN /\ http' = [http EXCEPT ![r] = Fail(@, 409)]
                 /\ UNCHANGED authUsers
            ELSE /\ authUsers' = [authUsers EXCEPT ![u] =
                      [exists |-> TRUE, displayName |-> DisplayName(Registered, Registered),
                       email |-> Registered]]
                 /\ http' = [http EXCEPT ![r].param = u,
                                         ![r].pc = "reg.doc"]
  /\ UNCHANGED <<now, creds, validAfter, userDocs, nodeEnv, received,
               feature, loggedOut>>
  /\ UNCHANGED <<relayVars, meetingVars>>

\* register: the set() of the document users/uid is applied and 201 is
\* answered, or the store fails (500).
RegisterDoc(r, storeFails) ==
  /\ http[r].route = "register" /\ http[r].pc = "reg.doc"
  /\ IF storeFails
       THEN /\ http' = [http EXCEPT ![r] = Fail(@, 500)]
            /\ UNCHANGED userDocs
       ELSE /\ userDocs' = [userDocs EXCEPT ![http[r].param] =
                 [exists |-> TRUE, name |-> Registered,
                  last_name |-> Registered,
                  age |-> ParseInt(http[r].form.age), email |-> Registered]]
            /\ http' = [http EXCEPT ![r].pc = "done",
                                    ![r].resp = Success(201)]
  /\ UNCHANGED <<now, creds, validAfter, authUsers, nodeEnv, received,
               feature, loggedOut>>
  /\ UNCHANGED <<relayVars, meetingVars>>

\* resetPassword starts and awaits auth.generatePasswordResetLink(email).
ResetPassword(r) ==
  /\ http[r].route = "resetPassword" /\ http[r].pc = "controller"
  /\ http' = [http EXCEPT ![r].invoked = TRUE, ![r].pc = "reset.link"]
  /\ UNCHANGED <<now, creds, validAfter, authUsers, userDocs, nodeEnv, received,
               feature, loggedOut>>
  /\ UNCHANGED <<relayVars, meetingVars>>

\* resetPassword: the provider answers with the link (200), with
\* auth/user-not-found (404) or with another error (500).
ResetLink(r, providerFails) ==
  /\ http[r].route = "resetPassword" /\ http[r].pc = "reset.link"
  /\ LET u == AccountOf(http[r].form.email)
     IN http' = [http EXCEPT ![r] =
          IF providerFails THEN Fail(@, 500)
          ELSE IF u = NoUser \/ ~authUsers[u].exists THEN Fail(@, 404)
          ELSE [@ EXCEPT !.pc = "done", !.resp = Success(200)]]
  /\ UNCHANGED <<now, creds, validAfter, authUsers, userDocs, nodeEnv, received,
               feature, loggedOut>>
  /\ UNCHANGED <<relayVars, meetingVars>>

\* ------------------------------------------------- POST /api/meetings
\* createMeeting behind authenticate and validateRequest: 401 without
\* req.user, else generateMeetingId returns a fresh id and the handler
\* awaits set().
NewMeeting(r, m) ==
  /\ http[r].route = "newMeeting" /\ http[r].pc = "controller"
  /\ LET q == [http[r] EXCEPT !.invoked = TRUE]
     IN IF q.user = NoUser
          THEN /\ http' = [http EXCEPT ![r] = Fail(q, 401)]
               /\ UNCHANGED generated
          ELSE /\ m \notin generated
               /\ generated' = generated \cup {m}
               /\ http' = [http EXCEPT ![r] =
                    [q EXCEPT !.meetingId = m, !.pc = "meeting.set"]]
  /\ UNCHANGED <<now, creds, validAfter, authUsers, userDocs, nodeEnv, received,
               feature, loggedOut>>
  /\ UNCHANGED <<relayVars, meetings, req, deleted, started>>

\* createMeeting: set() is applied and 201 is answered.
NewMeetingSet(r) ==
  /\ http[r].route = "newMeeting" /\ http[r].pc = "meeting.set"
  /\ meetings' = [meetings EXCEPT ![http[r].meetingId] =
       [exists |-> TRUE, hostId |-> http[r].user,
        participants |-> <<http[r].user>>]]
  /\ http' = [http EXCEPT ![r].pc = "done", ![r].resp = Success(201)]
  /\ UNCHANGED <<now, creds, validAfter, authUsers, userDocs, nodeEnv, received,
               feature, loggedOut>>
  /\ UNCHANGED <<relayVars, req, generated, deleted, started>>

\* ----------------------------------------------------------- error handlers
\* errorHandler: err.statusCode || 500, {success: false, error: {message}},
\* with err.stack when NODE_ENV is development.
ErrorHandler(r) ==
  /\ http[r].pc = "error"
  /\ http' = [http EXCEPT ![r].pc = "done", ![r].failed = TRUE,
       ![r].resp = [status |-> IF http[r].err # 0 THEN http[r].err ELSE 500,
                    kind |-> "json", success |-> FALSE,
                    stack |-> (nodeEnv = "development")]]
  /\ UNCHANGED <<now, creds, validAfter, authUsers, userDocs, nodeEnv, received,
                 feature, loggedOut>>
  /\ UNCHANGED <<relayVars, meetingVars>>

\* notFoundHandler: no route matched.
NotFoundHandler(r) ==
  /\ http[r].pc = "notFound"
  /\ http' = [http EXCEPT ![r].pc = "done", ![r].failed = TRUE,
       ![r].resp = [status |-> 404, kind |-> "json", success |-> FALSE,
                    stack |-> FALSE]]
  /\ UNCHANGED <<now, creds, validAfter, authUsers, userDocs, nodeEnv, received,
                 feature, loggedOut>>
  /\ UNCHANGED <<relayVars, meetingVars>>

\* The response has gone out; the slot is free for the next request.
HttpClose(r) ==
  /\ http[r].pc = "done"
  /\ http' = [http EXCEPT ![r] = HttpIdle]
  /\ UNCHANGED <<now, creds, validAfter, authUsers, userDocs, nodeEnv, received,
                 feature, loggedOut>>
  /\ UNCHANGED <<relayVars, meetingVars>>

\* The cookies a client can send: one the provider issued, none, or garbage.
Cookies == creds \cup {NoCred, Garbage}

NextGateway ==
  \/ \E r \in Slots, route \in UserRoutes \cup ProxyRoutes, c \in Cookies :
       feature = "sessions" /\ HttpReceive(r, route, c, NoBody, c.uid)
  \/ \E r \in Slots, c \in Cookies :
       feature = "sessions" /\ HttpReceive(r, "logout", c, NoBody, NoUser)
  \/ \E r \in Slots, u \in Accounts :
       feature = "sessions" /\ HttpReceiveForm(r, "login", NoCred, LoginFormOf(u))
  \/ \E r \in Slots, route \in {"getProfile", "deleteAccount"}, c \in Cookies :
       feature = "users" /\ HttpReceive(r, route, c, NoBody, NoUser)
  \/ \E r \in Slots, c \in Cookies, b \in ProfileBodies :
       feature = "users" /\ HttpReceive(r, "updateProfile", c, b, NoUser)
  \/ \E r \in Slots, c \in Cookies, u \in Accounts :
       feature = "users" /\ HttpReceive(r, "getUserById", c, NoBody, u)
  \/ \E r \in Slots, route \in ProxyRoutes, c \in Cookies :
       feature = "meetings" /\ HttpReceive(r, route, c, NoBody, NoUser)
  \/ \E r \in Slots, u \in {GoogleIdentity, NoUser} :
       feature = "other" /\ HttpReceive(r, "googleOAuth", NoCred, NoBody, u)
  \/ \E r \in Slots, u \in {GithubIdentity, NoUser} :
       feature = "other" /\ HttpReceive(r, "githubOAuth", NoCred, NoBody, u)
  \/ \E r \in Slots :
       feature = "other" /\ HttpReceive(r, "unknown", NoCred, NoBody, NoUser)
  \/ \E r \in Slots : Authenticate(r)
  \/ \E r \in Slots : ValidateRequest(r)
  \/ \E r \in Slots : GetProfile(r)
  \/ \E r \in Slots : UpdateProfile(r)
  \/ \E r \in Slots : UpdateReadDoc(r)
  \/ \E r \in Slots : UpdateDisplayName(r)
  \/ \E r \in Slots : UpdateEmail(r)
  \/ \E r \in Slots : UpdateDoc(r)
  \/ \E r \in Slots : UpdateReread(r)
  \/ \E r \in Slots : DeleteAccount(r)
  \/ \E r \in Slots, f \in BOOLEAN : DeleteAccountDoc(r, f)
  \/ \E r \in Slots, f \in BOOLEAN : DeleteAccountAuth(r, f)
  \/ \E r \in Slots, k \in BOOLEAN : Login(r, k)
  \/ \E r \in Slots, ok \in BOOLEAN : LoginSignIn(r, ok)
  \/ \E r \in Slots, f \in BOOLEAN : LoginDoc(r, f)
  \/ \E r \in Slots, f \in BOOLEAN : LoginCookie(r, f)
  \/ \E r \in Slots : Logout(r)
  \/ \E r \in Slots : LogoutVerify(r)
  \/ \E r \in Slots, f \in BOOLEAN : LogoutRevoke(r, f)
  \/ \E r \in Slots :
       feature = "other" /\ HandlerEnters(r, "confirmPasswordReset", NoUser)
  \/ \E r \in Slots, u \in Accounts \cup {NoUser} :
       feature = "other" /\ HandlerEnters(r, "updatePassword", u)
  \/ \E r \in Slots, k \in BOOLEAN : ConfirmPasswordReset(r, k)
  \/ \E r \in Slots, a \in {"throws", "refused", "no-email", "ok"} :
       \E u \in Accounts, m \in BOOLEAN : ConfirmReset(r, a, u, m)
  \/ \E r \in Slots, a \in {"fails", "empty", "found"} : ConfirmQuery(r, a)
  \/ \E r \in Slots : ConfirmTouch(r)
  \/ \E r \in Slots, k \in BOOLEAN : UpdatePassword(r, k)
  \/ \E r \in Slots, f \in BOOLEAN : UpdatePasswordDoc(r, f)
  \/ \E r \in Slots, a \in {"throws", "refused", "ok"} :
       UpdatePasswordVerify(r, a)
  \/ \E r \in Slots, a \in {"weak-password", "fails", "ok"}, m \in BOOLEAN :
       UpdatePasswordAuth(r, a, m)
  \/ \E r \in Slots, f \in BOOLEAN : UpdatePasswordTouch(r, f)
  \/ \E r \in Slots, f \in BOOLEAN : OAuthStart(r, f)
  \/ \E r \in Slots, a \in {"throws", "no-id-token", "ok"} :
       GoogleGetToken(r, a)
  \/ \E r \in Slots, a \in {"throws", "no-payload", "ok"} :
       GoogleVerifyIdToken(r, a)
  \/ \E r \in Slots, a \in {"throws", "no-token", "ok"} :
       GithubAccessToken(r, a)
  \/ \E r \in Slots, a \in {"throws", "no-id", "no-email", "ok"} :
       GithubProfile(r, a)
  \/ \E r \in Slots, a \in {"throws", "none", "ok"} : GithubEmails(r, a)
  \/ \E r \in Slots, f \in BOOLEAN : OAuthGetUser(r, f)
  \/ \E r \in Slots, f \in BOOLEAN : OAuthCreateUser(r, f)
  \/ \E r \in Slots, f \in BOOLEAN : OAuthSetDoc(r, f)
  \/ \E r \in Slots, f \in BOOLEAN : OAuthGetByEmail(r, f)
  \/ \E r \in Slots, a \in {"throws", "no-key", "ok"} :
       OAuthCustomToken(r, a)
  \/ \E r \in Slots, a \in {"throws", "refused", "ok"} : OAuthExchange(r, a)
  \/ \E r \in Slots, f \in BOOLEAN : OAuthCookie(r, f)
  \/ \E r \in Slots : ProxyCall(r)
  \/ \E r \in Slots, a \in UpstreamAnswers : ProxyAnswer(r, a)
  \/ \E r \in Slots : ErrorHandler(r)
  \/ \E r \in Slots : NotFoundHandler(r)
  \/ \E r \in Slots : HttpClose(r)
  \/ Tick

SpecGateway == InitGateway /\ [][NextGateway]_vars

\* ------------------------------------------------ gateway, validated routes
\* The behaviours whose clients use the routes with validators.
FormsFeature == "forms"

\* The gateway after account 1 has registered and logged in; the address of
\* account 2 is not registered yet. No request is in flight.
InitForms ==
  /\ conn = [c \in Conns |-> "idle"]
  /\ rooms = [m \in RoomKeys |-> {}]
  /\ inbox = [c \in Conns |-> <<>>]
  /\ clock = 0
  /\ last = NoEvent
  /\ joinedAs = [c \in Conns |-> [m \in RoomKeys |-> NoUser]]
  /\ left = {}
  /\ inUse = "chat-message"
  /\ meetings = [m \in MeetingIds |-> NoDoc]
  /\ req = [r \in Reqs |-> IdleReq]
  /\ generated = {}
  /\ deleted = {}
  /\ started = 0
  /\ now = 3
  /\ creds = {IssuedAt(1, 2, 3)}
  /\ validAfter = [u \in Identities |-> 0]
  /\ authUsers = [u \in Identities |->
       [exists |-> (u = 1),
        displayName |-> DisplayName(Registered, Registered),
        email |-> Registered]]
  /\ userDocs = [u \in Identities |->
       [exists |-> (u = 1), name |-> Registered, last_name |-> Registered,
        age |-> 30, email |-> Registered]]
  /\ http = [r \in Slots |-> HttpIdle]
  /\ nodeEnv = "production"
  /\ received = 0
  /\ feature = FormsFeature
  /\ loggedOut = {}

\* The bodies of PUT /profile in these behaviours: they leave the address as
\* it is.
FormProfileBodies ==
  [name : ProfileNameInputs \cup RefusedNameInputs,
   last_name : ProfileLastNameInputs \cup RefusedLastNameInputs,
   age : FormAgeInputs, email : {Absent} \cup RefusedEmailInputs]

NextForms ==
  \/ \E r \in Slots, f \in RegisterForms :
       HttpReceiveForm(r, "register", NoCred, f)
  \/ \E r \in Slots, f \in LoginForms :
       HttpReceiveForm(r, "login", NoCred, f)
  \/ \E r \in Slots, f \in ResetForms :
       HttpReceiveForm(r, "resetPassword", NoCred, f)
  \/ \E r \in Slots, c \in Cookies, f \in MeetingForms :
       HttpReceiveForm(r, "newMeeting", c, f)
  \/ \E r \in Slots, c \in Cookies, b \in FormProfileBodies :
       HttpReceive(r, "updateProfile", c, b, NoUser)
  \/ \E r \in Slots : Authenticate(r)
  \/ \E r \in Slots : ValidateRequest(r)
  \/ \E r \in Slots : Register(r)
  \/ \E r \in Slots,
          a \in {"ok", "invalid-email", "weak-password", "fails"} :
       RegisterCreate(r, a)
  \/ \E r \in Slots, f \in BOOLEAN : RegisterDoc(r, f)
  \/ \E r \in Slots, k \in BOOLEAN : Login(r, k)
  \/ \E r \in Slots, ok \in BOOLEAN : LoginSignIn(r, ok)
  \/ \E r \in Slots, f \in BOOLEAN : LoginDoc(r, f)
  \/ \E r \in Slots, f \in BOOLEAN : LoginCookie(r, f)
  \/ \E r \in Slots : ResetPassword(r)
  \/ \E r \in Slots, f \in BOOLEAN : ResetLink(r, f)
  \/ \E r \in Slots : UpdateProfile(r)
  \/ \E r \in Slots : UpdateReadDoc(r)
  \/ \E r \in Slots : UpdateDisplayName(r)
  \/ \E r \in Slots : UpdateDoc(r)
  \/ \E r \in Slots : UpdateReread(r)
  \/ \E r \in Slots, m \in MeetingIds : NewMeeting(r, m)
  \/ \E r \in Slots : NewMeetingSet(r)
  \/ \E r \in Slots : ErrorHandler(r)
  \/ \E r \in Slots : HttpClose(r)

SpecForms == InitForms /\ [][NextForms]_vars

\* ------------------------------------------------- gateway, bearer tokens
\* The gateway whose routes sit behind the authenticate that reads
\* Authorization: Bearer <idToken>; both accounts have signed in once.
InitBearer ==
  /\ conn = [c \in Conns |-> "idle"]
  /\ rooms = [m \in RoomKeys |-> {}]
  /\ inbox = [c \in Conns |-> <<>>]
  /\ clock = 0
  /\ last = NoEvent
  /\ joinedAs = [c \in Conns |-> [m \in RoomKeys |-> NoUser]]
  /\ left = {}
  /\ inUse = "chat-message"
  /\ meetings = [m \in MeetingIds |-> NoDoc]
  /\ req = [r \in Reqs |-> IdleReq]
  /\ generated = {}
  /\ deleted = {}
  /\ started = 0
  /\ now = 2
  /\ creds = {IdTokenAt(1, 0), IdTokenAt(2, 1)}
  /\ validAfter = [u \in Identities |-> 0]
  /\ authUsers = [u \in Identities |->
       [exists |-> (u \in Accounts),
        displayName |-> DisplayName(Registered, Registered),
        email |-> Registered]]
  /\ userDocs = [u \in Identities |->
       [exists |-> (u \in Accounts), name |-> Registered, last_name |-> Registered,
        age |-> 30, email |-> Registered]]
  /\ http = [r \in Slots |-> HttpIdle]
  /\ nodeEnv \in {"production", "development"}
  /\ received = 0
  /\ feature = BearerFeature
  /\ loggedOut = {}

\* A request with an Authorization header arrives.
HttpReceiveBearer(r, route, token, param) ==
  /\ http[r].pc = "idle"
  /\ received < MaxHttp
  /\ received' = received + 1
  /\ http' = [http EXCEPT ![r] =
       [HttpIdle EXCEPT !.route = route, !.bearer = token, !.param = param,
                        !.pc = FirstStage(route)]]
  /\ UNCHANGED <<now, creds, validAfter, authUsers, userDocs, nodeEnv,
                 feature, loggedOut>>
  /\ UNCHANGED <<relayVars, meetingVars>>

\* authenticate (bearer token): 401 without the header; the awaited
\* verifyIdToken answers; req.user is set and next() called, or 401.
AuthenticateBearer(r) ==
  /\ http[r].pc = "authenticate"
  /\ LET t == http[r].bearer
         code == IF t = NoCred THEN "missing" ELSE VerifyIdToken(t)
     IN http' = [http EXCEPT ![r] =
          IF code = "ok"
            THEN [@ EXCEPT !.user = t.uid,
                            !.pc = AfterAuthenticate(http[r].route)]
            ELSE [Fail(@, 401) EXCEPT !.rejection =
                    IF code = "missing" THEN "No authorization token provided"
                    ELSE "Invalid or expired token"]]
  /\ UNCHANGED <<now, creds, validAfter, authUsers, userDocs, nodeEnv, received,
                 feature, loggedOut>>
  /\ UNCHANGED <<relayVars, meetingVars>>

\* logout (body {uid}): revokeRefreshTokens(uid) is applied, or fails on a
\* record that is gone (500); the handler awaits getUser.
LogoutByUid(r) ==
  /\ http[r].route = "logout" /\ http[r].pc = "controller"
  /\ LET q == [http[r] EXCEPT !.invoked = TRUE]
         u == q.param
     IN IF ~authUsers[u].exists
          THEN /\ http' = [http EXCEPT ![r] = Fail(q, 500)]
               /\ UNCHANGED validAfter
          ELSE /\ validAfter' = RevokeRefreshTokens(validAfter, u)
               /\ http' = [http EXCEPT ![r] =
                    [q EXCEPT !.pc = "logout.getUser", !.cleared = TRUE]]
  /\ UNCHANGED <<now, creds, authUsers, userDocs, nodeEnv, received, feature,
                 loggedOut>>
  /\ UNCHANGED <<relayVars, meetingVars>>

\* logout: getUser answers and 200 is sent with tokensValidAfterTime.
LogoutAnswer(r) ==
  /\ http[r].route = "logout" /\ http[r].pc = "logout.getUser"
  /\ http' = [http EXCEPT ![r].pc = "done", ![r].resp = Success(200)]
  /\ UNCHANGED <<now, creds, validAfter, authUsers, userDocs, nodeEnv, received,
                 feature, loggedOut>>
  /\ UNCHANGED <<relayVars, meetingVars>>

\* The Authorization headers a client can send: a token the provider issued,
\* none, or garbage.
Bearers == creds \cup {NoCred, Garbage}

NextBearer ==
  \/ \E r \in Slots, route \in {"getProfile"} \cup ProxyRoutes, t \in Bearers :
       HttpReceiveBearer(r, route, t, NoUser)
  \/ \E r \in Slots, t \in Bearers :
       HttpReceiveBearer(r, "logout", t, IF t.uid = NoUser THEN 1 ELSE t.uid)
  \/ \E r \in Slots : AuthenticateBearer(r)
  \/ \E r \in Slots : GetProfile(r)
  \/ \E r \in Slots : LogoutByUid(r)
  \/ \E r \in Slots : LogoutAnswer(r)
  \/ \E r \in Slots : ProxyCall(r)
  \/ \E r \in Slots, a \in UpstreamAnswers : ProxyAnswer(r, a)
  \/ \E r \in Slots : ErrorHandler(r)
  \/ \E r \in Slots : HttpClose(r)
  \/ Tick

SpecBearer == InitBearer /\ [][NextBearer]_vars

\* ------------------------------------------------------------ relay claims
IsPrefix(s, t) == Len(s) <= Len(t) /\ SubSeq(t, 1, Len(s)) = s

\* The events written to socket r by the step.
NewEntries(r) == SubSeq(inbox'[r], Len(inbox[r]) + 1, Len(inbox'[r]))

\* The step handled a client event of one of the given types.
HandledNow(types) == clock' = clock + 1 /\ last'.type \in types

LastOf(s) == s[Len(s)]

\* C1: a chat-message emitted by a member of room m is written exactly once to
\* every socket that is in m at that moment, the sender included, and to no
\* socket outside m.
C1_ChatReachesExactlyTheRoom ==
  [][(HandledNow({"chat-message"}) /\ last'.conn \in rooms[last'.room]) =>
       \A r \in Conns :
         /\ IsPrefix(inbox[r], inbox'[r])
         /\ IF r \in rooms[last'.room]
              THEN /\ Len(NewEntries(r)) = 1
                   /\ NewEntries(r)[1].type = "chat-message"
                   /\ NewEntries(r)[1].src = last'.conn
                   /\ NewEntries(r)[1].room = last'.room
                   /\ NewEntries(r)[1].userId = last'.userId
              ELSE NewEntries(r) = <<>>]_vars

C1_Witness ==
  /\ last.type = "chat-message"
  /\ last.conn \in rooms[last.room]
  /\ \E r \in rooms[last.room] \ {last.conn} :
       /\ inbox[r] # <<>>
       /\ LastOf(inbox[r]).type = "chat-message"
       /\ LastOf(inbox[r]).src = last.conn
  /\ inbox[last.conn] # <<>>
  /\ LastOf(inbox[last.conn]).type = "chat-message"
  /\ LastOf(inbox[last.conn]).src = last.conn
  /\ \E o \in Conns : conn[o] = "connected" /\ o \notin rooms[last.room]

\* C2: the chat-messages of one sender reach every socket in the order in
\* which the sender emitted them: a chat-message is written behind everything
\* the socket was written before, and no step takes out or reorders what a
\* socket holds. (The payload's timestamp does not give the order: two
\* messages can carry the same one.)
C2_ChatFifoPerSender ==
  [][\A r \in Conns :
       /\ IsPrefix(inbox[r], inbox'[r])
       /\ HandledNow({"chat-message"}) =>
            \A i \in 1..Len(NewEntries(r)) :
              /\ NewEntries(r)[i].type = "chat-message"
              /\ NewEntries(r)[i].src = last'.conn]_vars

\* A socket holds two chat-messages of another sender that carry the same
\* timestamp.
C2_Witness ==
  \E r \in Conns : \E i, j \in 1..Len(inbox[r]) :
    /\ i < j
    /\ inbox[r][i].type = "chat-message"
    /\ inbox[r][j].type = "chat-message"
    /\ inbox[r][i].src = inbox[r][j].src
    /\ inbox[r][i].src # r
    /\ inbox[r][i].timestamp = inbox[r][j].timestamp

\* C3: a signaling event with targetUserId t is written only to sockets that
\* joined the room as user t.
C3_SignalOnlyToTarget ==
  [][(/\ HandledNow(SignalKinds)
      /\ last'.conn \in rooms[last'.room]
      /\ \E b \in rooms[last'.room] \ {last'.conn} :
           joinedAs[b][last'.room] = last'.target) =>
       \A r \in Conns :
         NewEntries(r) # <<>> => joinedAs[r][last'.room] = last'.target]_vars

\* C4: once a socket's leave-meeting for m is handled, and until it joins m
\* again, no event for m is written to it.
C4_NothingAfterLeave ==
  [][\A d \in Conns, m \in MeetingIds :
       (<<d, m>> \in left /\ <<d, m>> \in left') =>
         \A i \in 1..Len(NewEntries(d)) : NewEntries(d)[i].room # m]_vars

C4_Witness ==
  \E d \in Conns, r \in Conns :
    /\ <<d, last.room>> \in left
    /\ d # r
    /\ last.type \in RelayKinds \cup {"join-meeting", "leave-meeting"}
    /\ last.conn # d
    /\ inbox[d] # <<>>
    /\ LastOf(inbox[d]).room = last.room
    /\ r \in rooms[last.room]
    /\ inbox[r] # <<>>
    /\ LastOf(inbox[r]).src = last.conn
    /\ LastOf(inbox[r]).room = last.room
    /\ Len(inbox[r]) > Len(inbox[d])

\* C5: when join-meeting of socket j for room m is handled, j is in m, every
\* other socket already in m is written exactly one user-joined carrying j's
\* userId and socket id, and nothing is written to j or to sockets outside m.
C5_JoinNotifiesOthers ==
  [][HandledNow({"join-meeting"}) =>
       /\ last'.conn \in rooms'[last'.room]
       /\ \A r \in Conns :
            IF r \in rooms[last'.room] \ {last'.conn}
              THEN inbox'[r] = Append(inbox[r],
                     Event("user-joined", last'.room, last'.conn, last'.userId,
                           last'.conn, NoUser, NoTime))
              ELSE inbox'[r] = inbox[r]]_vars

C5_Witness ==
  /\ last.type = "join-meeting"
  /\ \E r \in rooms[last.room] \ {last.conn} :
       /\ inbox[r] # <<>>
       /\ LastOf(inbox[r]).type = "user-joined"
       /\ LastOf(inbox[r]).socketId = last.conn
       /\ LastOf(inbox[r]).userId = last.userId
  /\ inbox[last.conn] = <<>>

\* C6: when a socket that is in room m disconnects, it is removed from m and
\* every socket remaining in m is written a user-left for it.
C6_DisconnectNotifies ==
  [][HandledNow({"disconnect"}) =>
       \A m \in MeetingIds :
         last'.conn \in rooms[m] =>
           /\ last'.conn \notin rooms'[m]
           /\ \A r \in rooms[m] \ {last'.conn} :
                \E i \in 1..Len(NewEntries(r)) :
                  /\ NewEntries(r)[i].type = "user-left"
                  /\ NewEntries(r)[i].socketId = last'.conn
                  /\ NewEntries(r)[i].room = m]_vars

\* C7: every socket is in at most one meeting room.
C7_AtMostOneRoom ==
  \A c \in Conns : Cardinality({m \in MeetingIds : c \in rooms[m]}) <= 1

\* ---------------------------------------------------------- meeting claims
\* The request has read the meeting document.
HasRead(r) == req[r].pc \notin {"idle", "read"} /\ req[r].seenLen > 0

\* C8: a joinMeeting by a caller who is not in the participants list, which it
\* reads with 10 entries, is answered 403 and issues no write.
C8_FullMeetingRejectsNewcomer ==
  \A r \in Reqs :
    (/\ req[r].op = "join"
     /\ HasRead(r)
     /\ ~req[r].found
     /\ req[r].seenLen = MaxParticipants)
    => /\ req[r].pc = "done"
       /\ req[r].status = 403
       /\ ~req[r].wrote

C8_Witness ==
  \E r \in Reqs :
    /\ req[r].op = "join"
    /\ req[r].status = 403
    /\ req[r].seenLen = MaxParticipants
    /\ ~req[r].found
    /\ meetings[req[r].m].exists
    /\ Len(meetings[req[r].m].participants) = MaxParticipants

\* C9: a joinMeeting by a caller who is already in the participants list is
\* answered 200 and issues no write, whatever the size of the list: the list
\* it would have written is the list it read.
C9_JoinOfMemberIsIdempotent ==
  \A r \in Reqs :
    (req[r].op = "join" /\ HasRead(r) /\ req[r].found)
    => /\ ~req[r].wrote
       /\ req[r].pc \in {"reread", "done"}
       /\ req[r].pc = "reread" => Len(req[r].participants) = req[r].seenLen
       /\ req[r].pc = "done" => req[r].status = 200

C9_Witness ==
  \E r \in Reqs :
    /\ req[r].op = "join"
    /\ req[r].found
    /\ req[r].seenLen = MaxParticipants
    /\ req[r].pc = "done"
    /\ req[r].status = 200
    /\ req[r].participants = meetings[req[r].m].participants
    /\ req[r].uid # meetings[req[r].m].hostId

\* C10: a deleteMeeting by a caller other than the host is answered 403 and
\* issues no delete; one by the host is answered 200, the document is gone
\* from then on, and every getMeetingById received after that answers 404.
C10_OnlyHostDeletes ==
  /\ \A r \in Reqs :
       (/\ req[r].op = "delete"
        /\ HasRead(r)
        /\ req[r].seenHost # req[r].uid)
       => /\ req[r].pc = "done"
          /\ req[r].status = 403
          /\ ~req[r].wrote
  /\ \A r \in Reqs :
       (/\ req[r].op = "delete"
        /\ HasRead(r)
        /\ req[r].seenHost = req[r].uid
        /\ req[r].pc = "done")
       => /\ req[r].status = 200
          /\ req[r].m \in deleted
  /\ \A m \in deleted : ~meetings[m].exists
  /\ \A r \in Reqs :
       (req[r].op = "get" /\ req[r].afterDelete /\ req[r].pc = "done")
       => req[r].status = 404

C10_Witness ==
  \E r, g \in Reqs :
    /\ req[r].op = "delete"
    /\ req[r].status = 403
    /\ req[r].seenHost # req[r].uid
    /\ req[g].op = "get"
    /\ req[g].m = req[r].m
    /\ req[g].afterDelete
    /\ req[g].status = 404

\* ---------------------------------------------------------- gateway claims
\* The routes the specification puts behind authenticate.
Protected == UserRoutes \cup ProxyRoutes \cup {"logout"}

\* The credential is absent, expired or revoked at the present time.
Unusable(c) ==
  \/ c = NoCred
  \/ c.kind = "session" /\ (Expired(c) \/ Revoked(c))

\* C11: on the user routes, the meeting routes and logout a controller starts
\* only for a request on which authenticate verified the credential and set
\* req.user to its owner; a request whose credential is missing, expired or
\* revoked leaves authenticate as a 401 rejection, its controller never
\* starts, and its response is the 401.
C11_ControllersBehindAuthenticate ==
  [][\A r \in Slots :
       http[r].route \in Protected =>
         /\ (~http[r].invoked /\ http'[r].invoked)
            => /\ http[r].user # NoUser
               /\ http[r].user = http[r].cookie.uid
               /\ http[r].cookie \in creds
         /\ (/\ http[r].pc = "authenticate"
             /\ http'[r].pc # "authenticate"
             /\ Unusable(http[r].cookie))
            => /\ http'[r].pc = "error"
               /\ http'[r].err = 401
               /\ http'[r].user = NoUser
               /\ http'[r].rejection # "none"
         /\ http[r].rejection # "none"
            => /\ ~http'[r].invoked
               /\ http'[r].pc = "done" => http'[r].resp.status = 401]_vars

C11_Witness ==
  \E r \in Slots :
    /\ http[r].route \in ProxyRoutes
    /\ http[r].cookie \in creds
    /\ Expired(http[r].cookie)
    /\ http[r].rejection = "Sesion expirada"
    /\ http[r].pc = "done"
    /\ http[r].resp.status = 401
    /\ ~http[r].invoked

\* The credential a request presents to authenticate.
Presented(q) == IF q.bearer # NoCred THEN q.bearer ELSE q.cookie

\* C12: when authenticate answers a request whose credential was issued by
\* the provider, has been revoked and has not expired, the answer is a 401
\* rejection and req.user stays unset.
C12_RevokedIsRejected ==
  [][\A r \in Slots :
       (/\ http[r].pc = "authenticate"
        /\ http'[r].pc # "authenticate"
        /\ Presented(http[r]) \in creds
        /\ Revoked(Presented(http[r]))
        /\ ~Expired(Presented(http[r])))
       => /\ http'[r].pc = "error"
          /\ http'[r].err = 401
          /\ http'[r].user = NoUser]_vars

\* C13: a logout that answers 200 for user u covers every session credential
\* issued to u so far, and from then on authenticate answers every request
\* that presents one of them with a 401 rejection and sets no req.user.
C13_LogoutRevokesEverySession ==
  [][\A r \in Slots :
       /\ (/\ http[r].route = "logout"
           /\ http[r].resp.status # 200
           /\ http'[r].resp.status = 200)
          => \A c \in creds :
               c.uid = http[r].cookie.uid => c \in loggedOut'
       /\ (/\ http[r].pc = "authenticate"
           /\ http'[r].pc # "authenticate"
           /\ http[r].cookie \in loggedOut)
          => /\ http'[r].pc = "error"
             /\ http'[r].err = 401
             /\ http'[r].user = NoUser]_vars

\* C14: deleteAccount removes the identity record only after the document is
\* gone; when the identity deletion fails after the document was deleted the
\* request goes to the error handler with 500, the document stays deleted and
\* the identity record still exists; and 200 is answered only when both are
\* gone.
C14_DeleteAccountOrder ==
  [][\A r \in Slots :
       http[r].route = "deleteAccount" =>
         LET u == http[r].user
         IN /\ (u # NoUser /\ authUsers[u].exists /\ ~authUsers'[u].exists)
               => ~userDocs[u].exists
            /\ (http[r].pc = "del.auth" /\ http'[r].pc = "error")
               => /\ http'[r].err = 500
                  /\ ~userDocs'[u].exists
                  /\ authUsers'[u].exists
            /\ (http[r].pc = "error" /\ http'[r].pc = "done")
               => /\ http'[r].resp.status = http[r].err
                  /\ ~http'[r].resp.success
                  /\ userDocs' = userDocs
                  /\ authUsers' = authUsers
            /\ (http[r].resp.status # 200 /\ http'[r].resp.status = 200)
               => /\ ~userDocs'[u].exists
                  /\ ~authUsers'[u].exists]_vars

C14_Witness ==
  \E r \in Slots :
    /\ http[r].route = "deleteAccount"
    /\ http[r].invoked
    /\ http[r].pc = "done"
    /\ http[r].resp.status = 500
    /\ ~http[r].resp.success
    /\ ~userDocs[http[r].user].exists
    /\ authUsers[http[r].user].exists

\* C15: a meeting proxy request to which the chat backend answered 404 or
\* 403 is answered by the gateway with the same status.
C15_ProxyRelaysErrorKind ==
  \A r \in Slots :
    (/\ http[r].route \in ProxyRoutes
     /\ http[r].pc = "done"
     /\ http[r].upstream \in {403, 404})
    => http[r].resp.status = http[r].upstream

\* C16: every request that ended in a failure has a JSON response whose
\* success field is false, and the response carries a stack trace only when
\* NODE_ENV is not production.
C16_FailuresAreJson ==
  \A r \in Slots :
    (http[r].pc = "done" /\ http[r].failed)
    => /\ http[r].resp.kind = "json"
       /\ ~http[r].resp.success
       /\ http[r].resp.stack => nodeEnv # "production"

\* The ages of AgeInputs that are not a whole number from 1 to 120.
InvalidAge(a) == a \in {"0", "121", "abc", "30abc", EmptyArray}

\* C18: while an authenticated updateProfile whose body carries an invalid
\* age is handled, neither the user's document nor the identity record
\* changes, whatever else the body carries, and its response is 400.
C18_InvalidAgeChangesNothing ==
  [][\A r \in Slots :
       (/\ http[r].route = "updateProfile"
        /\ InvalidAge(http[r].body.age))
       => /\ userDocs' = userDocs
          /\ authUsers' = authUsers
          /\ (/\ http[r].user # NoUser
              /\ http[r].pc # "done"
              /\ http'[r].pc = "done")
             => /\ http'[r].resp.status = 400
                /\ ~http'[r].resp.success]_vars

\* ------------------------------------------------- relay claims, continued
\* C17: a join-meeting, leave-meeting, chat-message, signaling or toggle
\* event whose payload has no meetingId changes no room, writes nothing to
\* any connection and leaves every connection as it was.
C17_NoMeetingIdIsDropped ==
  [][(/\ HandledNow({"join-meeting", "leave-meeting"} \cup RelayKinds)
      /\ last'.room = Undefined)
     => /\ rooms' = rooms
        /\ inbox' = inbox
        /\ conn' = conn]_vars

\* C19: a join-meeting for room m from a socket that is already in m leaves
\* the rooms as they are and writes no event to any connection.
C19_RejoinIsNoOp ==
  [][(/\ HandledNow({"join-meeting"})
      /\ last'.conn \in rooms[last'.room])
     => /\ rooms' = rooms
        /\ inbox' = inbox]_vars

\* C20: a leave-meeting for room m from a socket L that is in m removes L and
\* nobody else from m and changes no other room; every socket that remains in
\* m is written exactly one user-left with the userId L joined with and L's
\* socket id, and L and every socket outside m are written nothing.
C20_LeaveRemovesExactlyTheLeaver ==
  [][\A c \in Conns, m \in MeetingIds :
       (/\ HandledNow({"leave-meeting"})
        /\ last'.conn = c
        /\ last'.room = m
        /\ c \in rooms[m])
       => /\ rooms'[m] = rooms[m] \ {c}
          /\ \A k \in RoomKeys \ {m} : rooms'[k] = rooms[k]
          /\ \A d \in rooms[m] \ {c} :
               /\ Len(NewEntries(d)) = 1
               /\ NewEntries(d)[1].type = "user-left"
               /\ NewEntries(d)[1].userId = joinedAs[c][m]
               /\ NewEntries(d)[1].socketId = c
          /\ \A d \in Conns \ (rooms[m] \ {c}) : inbox'[d] = inbox[d]]_vars

C20_Witness ==
  /\ last.type = "leave-meeting"
  /\ clock = 3
  /\ <<last.conn, last.room>> \in left
  /\ \E d \in rooms[last.room] :
       /\ d # last.conn
       /\ Len(inbox[d]) = 2
       /\ inbox[d][1].type = "user-joined"
       /\ inbox[d][1].socketId = last.conn
       /\ inbox[d][1].room = last.room
       /\ inbox[d][2].type = "user-left"
       /\ inbox[d][2].socketId = last.conn
       /\ inbox[d][2].userId = last.userId
  /\ inbox[last.conn] = <<>>

\* C21: a webrtc-offer, webrtc-answer or webrtc-ice-candidate for room m
\* whose targetUserId is the userId of no socket in m is written to no
\* connection.
C21_SignalWithoutTargetIsDropped ==
  [][(/\ HandledNow(SignalKinds)
      /\ last'.room \in MeetingIds
      /\ \A d \in rooms[last'.room] :
           joinedAs[d][last'.room] # last'.target)
     => inbox' = inbox]_vars

\* ---------------------------------------------- meeting claims, continued
\* C22: in every state of the store, whatever requests ran and however they
\* interleaved at their store calls, every meeting's participants list has at
\* most 10 entries.
C22_AtMostTenParticipants ==
  \A m \in MeetingIds : Len(meetings[m].participants) <= 10

\* Two joins read nine participants before either wrote, both wrote, and the
\* list has ten entries.
C22_Witness ==
  \E r, q \in Reqs :
    /\ r # q
    /\ req[r].op = "join" /\ req[q].op = "join"
    /\ req[r].m = req[q].m
    /\ req[r].uid # req[q].uid
    /\ req[r].seenLen = 9 /\ req[q].seenLen = 9
    /\ req[r].wrote /\ req[q].wrote
    /\ Len(meetings[req[r].m].participants) = 10

\* C23: when two joinMeeting requests of distinct callers for the same
\* meeting both read the participants list before either wrote, both wrote
\* and both answered 200, both callers are in the stored list.
C23_NoJoinIsLost ==
  \A r, q \in Reqs :
    (/\ r # q
     /\ req[r].op = "join" /\ req[q].op = "join"
     /\ req[r].m = req[q].m
     /\ req[r].uid # req[q].uid
     /\ req[r].wrote /\ req[q].wrote
     /\ req[r].seenLen = req[q].seenLen
     /\ req[r].pc = "done" /\ req[q].pc = "done"
     /\ req[r].status = 200 /\ req[q].status = 200)
    => /\ Includes(meetings[req[r].m].participants, req[r].uid)
       /\ Includes(meetings[req[r].m].participants, req[q].uid)

NoDuplicates(parts) ==
  \A i, j \in 1..Len(parts) : i # j => parts[i] # parts[j]

\* C24: no step stores a participants list in which a uid occurs twice, and
\* the update() of a leaveMeeting by u that answers 200 leaves no u in the
\* stored list, keeps every other entry that was stored and keeps the hostId.
C24_NoDuplicatesAndLeaveKeepsOthers ==
  [][/\ \A m \in MeetingIds : NoDuplicates(meetings'[m].participants)
     /\ \A r \in Reqs :
          (/\ req[r].op = "leave"
           /\ req[r].pc = "update"
           /\ req'[r].pc = "done"
           /\ req'[r].status = 200)
          => LET before == meetings[req[r].m]
                 after == meetings'[req[r].m]
             IN /\ ~Includes(after.participants, req[r].uid)
                /\ \A i \in 1..Len(before.participants) :
                     before.participants[i] # req[r].uid
                     => Includes(after.participants, before.participants[i])
                /\ after.hostId = before.hostId]_vars

\* ------------------------------------------------ relay claims, concluded
\* C25: a chat-message, signaling, toggle or leave-meeting event for room m
\* from a socket that is not in m when the event is handled (it never joined
\* m, or has left it) is written to no connection.
C25_OnlyMembersCauseDelivery ==
  [][(/\ HandledNow(RelayKinds \cup {"leave-meeting"})
      /\ last'.room \in MeetingIds
      /\ last'.conn \notin rooms[last'.room])
     => inbox' = inbox]_vars

\* C26: the relay consults no session credential (none has been issued in
\* these behaviours): every join-meeting makes its socket a member of the
\* room, and every user-joined and chat-message written carries the userId of
\* the client's payload.
C26_RelayTrustsThePayload ==
  [][/\ creds = {}
     /\ HandledNow({"join-meeting"}) => last'.conn \in rooms'[last'.room]
     /\ HandledNow({"join-meeting", "chat-message"})
        => \A d \in Conns :
             \A i \in 1..Len(NewEntries(d)) :
               /\ NewEntries(d)[i].type \in {"user-joined", "chat-message"}
               /\ NewEntries(d)[i].userId = last'.userId]_vars

\* No credential exists, and two sockets in one room have relayed events
\* under the same userId: a user-joined of one and a chat-message of the
\* other.
C26_Witness ==
  /\ creds = {}
  /\ \E d \in Conns, m \in MeetingIds :
       \E i, j \in 1..Len(inbox[d]) :
         /\ inbox[d][i].type = "user-joined"
         /\ inbox[d][j].type = "chat-message"
         /\ inbox[d][i].userId = inbox[d][j].userId
         /\ inbox[d][i].src # inbox[d][j].src
         /\ {inbox[d][i].src, inbox[d][j].src} \subseteq rooms[m]

\* C27: a chat-message, signaling or toggle event changes no room and no
\* connection, and a join-meeting writes nothing to the joining socket: what
\* was toggled before it joined does not reach it.
C27_RelayEventsKeepTheRooms ==
  [][/\ HandledNow(RelayKinds)
        => /\ rooms' = rooms
           /\ joinedAs' = joinedAs
           /\ conn' = conn
     /\ HandledNow({"join-meeting"})
        => inbox'[last'.conn] = inbox[last'.conn]]_vars

\* A socket has joined a room in which a toggle was relayed before, and has
\* been written nothing.
C27_Witness ==
  /\ last.type = "join-meeting"
  /\ last.room \in MeetingIds
  /\ inbox[last.conn] = <<>>
  /\ \E d \in rooms[last.room] \ {last.conn} :
       \E i \in 1..Len(inbox[d]) :
         /\ inbox[d][i].type \in {"microphone-toggled", "camera-toggled"}
         /\ inbox[d][i].room = last.room
         /\ inbox[d][i].src \in rooms[last.room]

\* C28: a login response carries the session cookie only when the provider
\* accepted the email and password (the request holds the sign-in's auth
\* time) and createSessionCookie produced the credential: the cookie is one
\* the provider issued to the account that signed in, and it goes out with
\* the 200. A login answered with an error (401 for bad credentials, 500 for
\* a provider failure) sets no cookie.
C28_LoginSetsCookieOnlyAfterSignIn ==
  \A r \in Slots :
    http[r].route = "login" =>
      /\ http[r].setCookie # NoCred =>
           /\ http[r].pc = "done"
           /\ http[r].resp = Success(200)
           /\ http[r].signedIn
           /\ http[r].setCookie \in creds
           /\ http[r].setCookie.uid = http[r].param
           /\ http[r].setCookie.authTime = http[r].authTime
      /\ (http[r].pc = "error" \/ http[r].failed) => http[r].setCookie = NoCred
      /\ (http[r].pc = "done" /\ ~http[r].failed) => http[r].setCookie # NoCred

\* A login with bad credentials has been answered 401 without a cookie.
C28_Witness ==
  \E r \in Slots :
    /\ http[r].route = "login"
    /\ http[r].pc = "done"
    /\ http[r].resp.status = 401
    /\ ~http[r].signedIn
    /\ http[r].setCookie = NoCred

\* C29: whenever a logout response clears the session cookie, every
\* credential issued to the owner of the presented cookie has been revoked:
\* none of them passes verification with the revocation check any more.
C29_ClearedCookieMeansRevoked ==
  \A r \in Slots :
    (http[r].route = "logout" /\ http[r].cleared /\ http[r].cookie \in creds)
      => \A c \in creds :
           c.uid = http[r].cookie.uid
             => VerifySessionCookie(c, TRUE) # "ok"

\* What the identity provider and the document store hold.
ProviderAndStore ==
  <<creds, validAfter, authUsers, userDocs, meetings, generated>>

\* C30: on the routes with validators (register, login, reset-password,
\* profile update, meeting create), validateRequest passes a request whose
\* body fails a validator to the error handler with status 400; the request
\* is answered 400, its controller is never invoked, and nothing is written
\* to the identity provider or the document store on its way.
C30_InvalidRequestsStopAtValidation ==
  [][\A r \in Slots :
       /\ (/\ http[r].pc = "validate"
           /\ HasErrors(http[r])
           /\ http'[r] # http[r])
          => /\ Validated(http[r].route)
             /\ http'[r].pc = "error"
             /\ http'[r].err = 400
             /\ ~http'[r].invoked
             /\ ProviderAndStore' = ProviderAndStore
       /\ (/\ http[r].pc = "error"
           /\ http[r].err = 400
           /\ ~http[r].invoked
           /\ http'[r] # http[r])
          => /\ http'[r].pc = "done"
             /\ http'[r].resp.status = 400
             /\ ~http'[r].invoked
             /\ ProviderAndStore' = ProviderAndStore]_vars

\* A registration with a three-character password, and otherwise valid
\* fields, has been answered 400 without its controller being invoked: the
\* address is still unregistered.
C30_Witness ==
  \E r \in Slots :
    /\ http[r].route = "register"
    /\ http[r].form.password = "abc"
    /\ http[r].form.email = "luis@x.co"
    /\ http[r].form.name = "Ana"
    /\ http[r].form.last_name = "Paz"
    /\ http[r].form.age = "120"
    /\ http[r].pc = "done"
    /\ http[r].resp.status = 400
    /\ ~http[r].invoked
    /\ ~authUsers[2].exists

====
